---------------------------- MODULE Spec2Model ----------------------------
(***************************************************************************)
(* A state-machine model of post_service's view accounting, hot-snapshot   *)
(* refresh, hot reads, view-count write-back and moderation consumers.     *)
(*                                                                         *)
(* The KVStore (Redis) executes one command, one Lua script or one RENAME  *)
(* atomically; a pipeline is a sequence of commands.  Every Go statement   *)
(* that issues a command is therefore one step of the process issuing it,  *)
(* and other processes may run between two steps.                          *)
(*                                                                         *)
(* Post ids are small naturals.  A key such as post_view_count:<id> is     *)
(* represented by <id> in the domain of the function modelling the key     *)
(* family: fmt.Sprintf("%d", id) and strconv.ParseUint are inverse on      *)
(* uint64, so the key <-> id correspondence is a bijection.                *)
(***************************************************************************)
EXTENDS Integers, Sequences, FiniteSets, TLC

(***************************************************************************)
(* Bounds of the model.                                                    *)
(***************************************************************************)
NumPosts   == 1      \* post ids 1..NumPosts of the view-accounting model
NumUsers   == 2      \* user ids 1..NumUsers
NumClients == 2      \* concurrent IncrementViewCount invocations
MaxFaults  == 1      \* injected KVStore / DurableStore failures per behaviour
NumHotPosts == 3     \* post ids 1..NumHotPosts of the hot-snapshot model (one digit each)
HotPostsCacheSize == 2   \* N of the top-N snapshot (constant.HotPostsCacheSize, scaled down)
MaxInitScore == 2    \* scores of post_rank when the snapshot model starts
MaxCycles  == 2      \* runs of the hot-snapshot job
MaxViews   == 1      \* counted views while the snapshot model runs
MaxDeletes == 1      \* posts soft-deleted while the snapshot model runs
MaxReads   == 1      \* reads of a concurrent reader
NumSnapPosts == 4    \* post ids 1..NumSnapPosts of the pagination model (one digit each)
MaxSnapScore == 2    \* scores of the hot ranking in the pagination model
MaxLimit   == 2      \* largest page size requested
NumSyncPosts == 3    \* post ids 1..NumSyncPosts of the write-back model
MaxSyncCount == 2    \* largest counter value read by the write-back job
BatchSize  == 2      \* viewSyncCfg.BatchSize (default 500), scaled down
ConcurrencyLevel == 2    \* viewSyncCfg.ConcurrencyLevel (default 2)
NumModPosts == 2     \* post ids 1..NumModPosts of the moderation model
MaxEvents  == 2      \* moderation events published per behaviour
WritebackPeriod == 10    \* constant.SyncViewCountInterval "*/10 * * * *", minutes
WritebackTimeout == 3    \* context.WithTimeout(..., 3*time.Minute)
HotPeriod == 15          \* constant.HotPostsCacheCronSpec "@every 15m", minutes
HotTimeout == 10         \* context.WithTimeout(..., 10*time.Minute)
MaxSuggLen == 240        \* longest suggestion of a rejected event, in bytes
MaxDetails == 2          \* details of a rejected event
maxReasonLength == 250   \* formatRejectionReason: const maxReasonLength
NumRelPosts == 2         \* posts created per behaviour
MaxImages == 2           \* images of one create request
MaxOps == 3              \* create and delete calls per behaviour
NumScanKeys == 2         \* post_view_count:<id> keys with a numeric id in the keyspace
ScanBatchSize == 2       \* keys one SCAN call returns at most
MaxScanCount == 1        \* largest counter value in the scanned keyspace
MaxScanWrites == 1       \* INCR and key removals by others while one scan runs
MaxRuns == 2             \* successive runs of the write-back job
MaxSyncViews == 2        \* views counted while the write-back job runs and between its runs
SeedViewCount == 3       \* view_count of a seeded row (seeder: up to about 100,000), scaled down
MaxTime == 31            \* minutes of scheduler time modelled
ReturnSlack == 1         \* minutes a run needs to return once its context has expired
NumReadPosts == 2    \* post ids 1..NumReadPosts of the request model

Posts   == 1..NumPosts
Users   == 1..NumUsers
Clients == 1..NumClients
HotPosts == 1..NumHotPosts
SnapPosts == 1..NumSnapPosts
SyncPosts == 1..NumSyncPosts
Workers == 1..ConcurrencyLevel
ModPosts == 1..NumModPosts
ReadPosts == 1..NumReadPosts
Jobs == {"writeback", "hot"}
\* cfg.KafkaConfig.Topics.PostAuditApproved and .PostAuditRejected
Topics == {"approved", "rejected"}

VARIABLES
    \* ---- KVStore: view accounting -------------------------------------
    bloom,        \* post_view_bloom:<id>   : id -> set of user ids (key present iff id in DOMAIN)
    viewCount,    \* post_view_count:<id>   : id -> counter          (key present iff id in DOMAIN)
    postRank,     \* post_rank (sorted set) : member id -> score
    \* ---- IncrementViewCount invocations -------------------------------
    inc,          \* client -> [pc, post, user, rsv, res]
    faults,       \* number of KVStore failures injected so far
    fpSeen,       \* a Bloom false positive has been answered
    counted,      \* history: post -> user -> number of executed count-and-rank scripts
    \* ---- KVStore: hot snapshot -----------------------------------------
    hotRank,      \* hot_post_rank (sorted set)  : member id -> score
    postsHash,    \* posts (hash)                : field id -> summary
    tmpHash,      \* posts_temp_<nanos> (hash)   : field id -> summary
    detail,       \* post_detail:<id>            : id -> detail object
    tmpDetail,    \* post_detail:temp:<id>       : id -> detail object
    \* ---- DurableStore ---------------------------------------------------
    dbLive,       \* ids whose Post and PostDetail rows exist with deleted_at IS NULL
    \* ---- HotPostsCacheTask ----------------------------------------------
    cyc,          \* the job run: program counter, locals, step results
    cycles,       \* completed runs
    views,        \* counted views so far (snapshot model)
    deletes,      \* soft deletes so far (snapshot model)
    \* ---- a concurrent reader --------------------------------------------
    obs,          \* what the reader's last read returned
    reads,        \* reads so far
    pubHot,       \* history: ids of hot_post_rank when the summary map was last published
    \* ---- a client paging through the hot list ---------------------------
    pg,           \* the list-by-cursor call in progress and what it returned
    \* ---- ViewCountSyncTask ----------------------------------------------
    dbView,       \* DurableStore: post id -> view_count column
    sy,           \* the write-back run: job, dispatcher, workers, channels, context
    \* ---- moderation consumers -------------------------------------------
    dbPost,       \* DurableStore: post id -> [status, reason, deleted] (row present iff id in DOMAIN)
    md,           \* EventBus topics, committed offsets, the two consumers
    \* ---- request handlers and the goroutines they detach -----------------
    rq,           \* the HTTP request in progress and its response
    badJson,      \* ids whose post_detail:<id> value does not parse as a PostDetailVO
    tasks,        \* detached goroutines: [kind, deadline, post, st]
    \* ---- the two cron schedulers and main's shutdown --------------------
    cr,           \* clock (minutes), next tick and runs in progress of each job
    sd,           \* main after the stop signal: the join on the two schedulers
    \* ---- GetAllViewCounts -------------------------------------------------
    sc,           \* the SCAN iteration: keyspace, cursor, map built, what it returned
    \* ---- DurableStore tables, blob store, create and delete handlers -----
    rel,          \* committed rows: post, post_detail (by post id), post_detail_image (by detail id)
    blob,         \* object keys present in the blob store
    op,           \* the create or delete call in progress: locals, transaction, what it returned
    \* ---- RejectedAuditHandler.formatRejectionReason ------------------------
    fr            \* the event given and the reason composed from it

viewVars == <<bloom, viewCount, postRank, inc, faults, fpSeen, counted>>

hotVars == <<hotRank, postsHash, tmpHash, detail, tmpDetail, dbLive, cyc, cycles,
             views, deletes, obs, reads, pubHot>>

vars == <<bloom, viewCount, postRank, inc, faults, fpSeen, counted,
          hotRank, postsHash, tmpHash, detail, tmpDetail, dbLive, cyc, cycles,
          views, deletes, obs, reads, pubHot, pg, dbView, sy, dbPost, md,
          rq, badJson, tasks, cr, sd, sc, rel, blob, op, fr>>

\* hotVars without the rows of the DurableStore.
snapVars == <<hotRank, postsHash, tmpHash, detail, tmpDetail, cyc, cycles,
              views, deletes, obs, reads, pubHot>>

syncVars == <<dbView, sy>>

modVars == <<dbPost, md>>

readVars == <<rq, badJson, tasks>>

schedVars == <<cr, sd>>

extVars == <<sc, rel, blob, op, fr>>

postVars == <<rel, blob, op>>

\* Everything the sections above the scan model own.
baseVars == <<viewVars, hotVars, pg, syncVars, modVars, readVars, schedVars>>

(***************************************************************************)
(* Generic helpers on finite maps.                                         *)
(***************************************************************************)
Put(f, k, v) == [x \in (DOMAIN f) \cup {k} |-> IF x = k THEN v ELSE f[x]]

Drop(f, ks) == [x \in (DOMAIN f) \ ks |-> f[x]]

EmptyMap == [x \in {} |-> 0]

Get0(f, k) == IF k \in DOMAIN f THEN f[k] ELSE 0

Range(s) == {s[i] : i \in DOMAIN s}

Min(a, b) == IF a < b THEN a ELSE b

(***************************************************************************)
(* The resting state of the hot-snapshot job and of the reader: the state  *)
(* of a freshly started service on an empty KVStore.                       *)
(***************************************************************************)
\* syncHotCaches is not running.  pre and data are the summary map before
\* and after the refresh in progress; f2, f3p and f3d are the ids the three
\* DurableStore fetches returned; cached is cachedDetailIDsMap; toDel and
\* toRen are the commands still queued in the pipelines of step 3.  dbErr2
\* tells that GetPostsByIDs of step 2 returned an error; unren are the temp
\* keys a failed RENAME pipeline left; cleaned are the temp keys the run
\* issued a DEL for; gone are the posts already soft-deleted when the run
\* started; acc is allDetailKeys of the branch of the empty hot list.
IdleCycle == [pc |-> "idle", r1 |-> "none", r2 |-> "none", r3 |-> "none",
              ids |-> {}, sc |-> EmptyMap, pre |-> EmptyMap, data |-> EmptyMap,
              f2 |-> {}, f3p |-> {}, f3d |-> {}, cached |-> {},
              toDel |-> {}, toRen |-> {}, fault |-> FALSE,
              dbErr2 |-> FALSE, unren |-> {}, cleaned |-> {}, gone |-> {},
              acc |-> {}]

NoObs == [kind |-> "none", id |-> 0, val |-> EmptyMap, pre |-> EmptyMap,
          post |-> EmptyMap, pub |-> {}]

\* No list-by-cursor request has been made.
IdlePager == [pc |-> "idle", call |-> 0, fromTop |-> FALSE, has |-> FALSE, cur |-> 0,
              limit |-> 0, start |-> 0, ids |-> <<>>, posts |-> <<>>,
              nextHas |-> FALSE, next |-> 0, http |-> 0, code |-> "none", err |-> "none",
              page1 |-> <<>>]

\* syncViewCountsToDB is not running.  cfg is viewSyncCfg.ConcurrencyLevel and
\* bs viewSyncCfg.BatchSize as configured, run the number of runs that have
\* returned.
IdleSync == [pc |-> "idle", ctxDone |-> FALSE, M |-> EmptyMap, batches |-> <<>>,
             next |-> 1, disp |-> "none", jobs |-> <<>>, jobsClosed |-> FALSE,
             w |-> [x \in Workers |-> [pc |-> "none", b |-> 0]],
             results |-> <<>>, resultsClosed |-> FALSE, agg |-> <<>>, ret |-> "none",
             cfg |-> ConcurrencyLevel, run |-> 0, bs |-> BatchSize,
             left |-> {}, keys |-> {}, last |-> FALSE, acc |-> EmptyMap]

\* Everything outside view accounting and the snapshot at rest.
RestQuiet ==
    /\ pg = IdlePager
    /\ sy = IdleSync
    /\ dbView = [p \in SyncPosts |-> 0]

\* Consumer.Start is about to call ReadMessage; nothing was handled yet.
IdleConsumer == [pc |-> "read", at |-> 0, msg |-> [post |-> 0, ok |-> FALSE]]

NoHandled == [at |-> 0, post |-> 0, ok |-> FALSE, row |-> "none", io |-> FALSE,
              ret |-> <<>>]

IdleMod == [log |-> [t \in Topics |-> <<>>], off |-> [t \in Topics |-> 1],
            con |-> [t \in Topics |-> IdleConsumer],
            last |-> [t \in Topics |-> NoHandled]]

ModQuiet ==
    /\ dbPost = EmptyMap
    /\ md = IdleMod

\* No HTTP request has been made.
IdleRequest == [pc |-> "idle", kind |-> "none", id |-> 0, user |-> FALSE,
                cause |-> "none", err |-> <<>>, http |-> 0, code |-> "none",
                shown |-> "none"]

ReadQuiet ==
    /\ rq = IdleRequest
    /\ badJson = {}
    /\ tasks = {}

\* Both schedulers started at minute 0, no run in progress; main serving.
IdleCron == [now |-> 0, next |-> [j \in Jobs |-> 0], runs |-> [j \in Jobs |-> {}]]

IdleShutdown == [pc |-> "serving", sync |-> "ctx", cache |-> "ctx", stopped |-> 0,
                 timedOut |-> FALSE]

SchedQuiet ==
    /\ cr = IdleCron
    /\ sd = IdleShutdown

\* GetAllViewCounts is not running.
IdleScan == [pc |-> "idle", cfg |-> 0, store |-> EmptyMap, left |-> {}, kept |-> {},
             keys |-> {}, last |-> FALSE, wr |-> 0, acc |-> EmptyMap, failed |-> FALSE, ret |-> [nil |-> TRUE, m |-> EmptyMap, err |-> <<>>]]

\* No post was ever created.
EmptyRel == [post |-> EmptyMap, detail |-> EmptyMap, image |-> EmptyMap]

\* No create or delete call is running; n calls were made.
IdleOp == [pc |-> "idle", kind |-> "none", n |-> 0, post |-> 0, found |-> "none",
           todo |-> <<>>, work |-> <<>>, images |-> 0, uploaded |-> {},
           attempted |-> {}, faults |-> 0, err |-> <<>>, ret |-> "none",
           emitted |-> <<>>, before |-> EmptyRel]

PostQuiet ==
    /\ rel = EmptyRel
    /\ blob = {}
    /\ op = IdleOp

\* formatRejectionReason was not called.
IdleFormat == [pc |-> "idle", suggestion |-> <<>>, details |-> <<>>, out |-> <<>>]

ExtQuiet ==
    /\ sc = IdleScan
    /\ PostQuiet
    /\ fr = IdleFormat

HotQuiet ==
    /\ hotRank = EmptyMap /\ postsHash = EmptyMap /\ tmpHash = EmptyMap
    /\ detail = EmptyMap /\ tmpDetail = EmptyMap
    /\ cyc = IdleCycle /\ cycles = 0 /\ views = 0 /\ deletes = 0
    /\ obs = NoObs /\ reads = 0 /\ pubHot = {}

(***************************************************************************)
(* ViewAccountant: postViewRepository.IncrementViewCount                    *)
(***************************************************************************)

\* BF.RESERVE: creates the filter, or answers "ERR item exists" and changes nothing.
BFReserveReply(bl, p) == IF p \in DOMAIN bl THEN "item_exists" ELSE "ok"

BFReserveStore(bl, p) == IF p \in DOMAIN bl THEN bl ELSE Put(bl, p, {})

\* Mutant of ReserveIsFatal: every error reply of BF.RESERVE aborts the call.
ReserveIsFatalStrict(reply) == reply # "ok"

\* The error check after BFReserve: only an error whose text is not
\* "ERR item exists" makes IncrementViewCount return.
ReserveIsFatal(reply) == reply \notin {"ok", "item_exists"}

\* BF.EXISTS on a present or absent key (absent: 0).
BFExistsReply(bl, p, u) == p \in DOMAIN bl /\ u \in bl[p]

\* BF.ADD creates the filter when it is absent.
BFAddStore(bl, p, u) == Put(bl, p, (IF p \in DOMAIN bl THEN bl[p] ELSE {}) \cup {u})

\* Mutant of LuaIncrAndRank: the script increments and omits the ZADD.
LuaIncrOnly(vc, rk, p) == [vc |-> Put(vc, p, Get0(vc, p) + 1), rk |-> rk]

\* Mutant of LuaIncrAndRank: the script restarts the counter at 1.
LuaResetAndRank(vc, rk, p) == [vc |-> Put(vc, p, 1), rk |-> Put(rk, p, 1)]

\* The Lua script: INCR KEYS[1]; ZADD KEYS[2] viewCount ARGV[1]; one atomic step.
LuaIncrAndRank(vc, rk, p) ==
    LET n == Get0(vc, p) + 1
    IN  [vc |-> Put(vc, p, n), rk |-> Put(rk, p, n)]

IdleClient == [pc |-> "idle", post |-> 0, user |-> 0, rsv |-> "none", res |-> "none"]

Finish(c, r) == inc' = [inc EXCEPT ![c].pc = "done", ![c].res = r]

Goto(c, l) == inc' = [inc EXCEPT ![c].pc = l]

\* A caller (detail read) invokes IncrementViewCount(postID, userID).
\* Clients are interchangeable: client c starts after client c-1 has.
IncStart(c) ==
    /\ inc[c].pc = "idle"
    /\ c > 1 => inc[c - 1].pc # "idle"
    /\ \E p \in Posts, u \in Users :
          inc' = [inc EXCEPT ![c] = [pc |-> "reserve", post |-> p, user |-> u,
                                     rsv |-> "none", res |-> "none"]]
    /\ UNCHANGED <<bloom, viewCount, postRank, faults, fpSeen, counted>>
    /\ UNCHANGED <<hotVars, pg, syncVars, modVars, readVars, schedVars, extVars>>

\* Step 2 of the code: BFReserve and its error check.
IncReserve(c) ==
    /\ inc[c].pc = "reserve"
    /\ LET p == inc[c].post
           reply == BFReserveReply(bloom, p)
       IN  \/ /\ bloom' = BFReserveStore(bloom, p)
              /\ IF ReserveIsFatal(reply)
                    THEN inc' = [inc EXCEPT ![c].pc = "done", ![c].res = "error", ![c].rsv = reply]
                    ELSE inc' = [inc EXCEPT ![c].pc = "exists", ![c].rsv = reply]
              /\ UNCHANGED faults
           \/ /\ faults < MaxFaults          \* any other BF.RESERVE error
              /\ faults' = faults + 1
              /\ inc' = [inc EXCEPT ![c].pc = "done", ![c].res = "error", ![c].rsv = "io_error"]
              /\ UNCHANGED bloom
    /\ UNCHANGED <<viewCount, postRank, fpSeen, counted>>
    /\ UNCHANGED <<hotVars, pg, syncVars, modVars, readVars, schedVars, extVars>>

\* Step 3 of the code: BFExists; a member, or a false positive, ends the call with nil.
IncExists(c) ==
    /\ inc[c].pc = "exists"
    /\ LET p == inc[c].post
           u == inc[c].user
       IN  \/ /\ IF BFExistsReply(bloom, p, u) THEN Finish(c, "ok") ELSE Goto(c, "add")
              /\ UNCHANGED <<faults, fpSeen>>
           \/ /\ ~BFExistsReply(bloom, p, u)     \* probabilistic membership: false positive
              /\ p \in DOMAIN bloom /\ bloom[p] # {}
              /\ fpSeen' = TRUE
              /\ Finish(c, "ok")
              /\ UNCHANGED faults
           \/ /\ faults < MaxFaults
              /\ faults' = faults + 1
              /\ Finish(c, "error")
              /\ UNCHANGED fpSeen
    /\ UNCHANGED <<bloom, viewCount, postRank, counted>>
    /\ UNCHANGED <<hotVars, pg, syncVars, modVars, readVars, schedVars, extVars>>

\* Step 4 of the code, first command: BFAdd; its failure ends the call.
IncAdd(c) ==
    /\ inc[c].pc = "add"
    /\ \/ /\ bloom' = BFAddStore(bloom, inc[c].post, inc[c].user)
          /\ Goto(c, "expire")
          /\ UNCHANGED faults
       \/ /\ faults < MaxFaults
          /\ faults' = faults + 1
          /\ Finish(c, "error")
          /\ UNCHANGED bloom
    /\ UNCHANGED <<viewCount, postRank, fpSeen, counted>>
    /\ UNCHANGED <<hotVars, pg, syncVars, modVars, readVars, schedVars, extVars>>

\* Step 4 of the code, second command: Expire; its failure is logged only.
IncExpire(c) ==
    /\ inc[c].pc = "expire"
    /\ \/ UNCHANGED faults
       \/ faults < MaxFaults /\ faults' = faults + 1
    /\ Goto(c, "lua")
    /\ UNCHANGED <<bloom, viewCount, postRank, fpSeen, counted>>
    /\ UNCHANGED <<hotVars, pg, syncVars, modVars, readVars, schedVars, extVars>>

\* Step 5 of the code: the count-and-rank script.  A failure is either the
\* script not having run, or its reply lost after it ran (deadline, connection).
IncLua(c) ==
    /\ inc[c].pc = "lua"
    /\ LET p == inc[c].post
           u == inc[c].user
           r == LuaIncrAndRank(viewCount, postRank, p)
           ran == /\ viewCount' = r.vc
                  /\ postRank' = r.rk
                  /\ counted' = [counted EXCEPT ![p][u] = @ + 1]
       IN  \/ ran /\ Finish(c, "ok") /\ UNCHANGED faults
           \/ /\ faults < MaxFaults
              /\ faults' = faults + 1
              /\ Finish(c, "error")
              /\ \/ ran
                 \/ UNCHANGED <<viewCount, postRank, counted>>
    /\ UNCHANGED <<bloom, fpSeen>>
    /\ UNCHANGED <<hotVars, pg, syncVars, modVars, readVars, schedVars, extVars>>

ViewInit ==
    /\ bloom = [x \in {} |-> {}]
    /\ viewCount = EmptyMap
    /\ postRank = EmptyMap
    /\ inc = [c \in Clients |-> IdleClient]
    /\ faults = 0
    /\ fpSeen = FALSE
    /\ counted = [p \in Posts |-> [u \in Users |-> 0]]
    /\ dbLive = {}
    /\ HotQuiet
    /\ RestQuiet
    /\ ModQuiet
    /\ ReadQuiet
    /\ SchedQuiet
    /\ ExtQuiet

ViewNext ==
    \E c \in Clients :
        \/ IncStart(c)
        \/ IncReserve(c)
        \/ IncExists(c)
        \/ IncAdd(c)
        \/ IncExpire(c)
        \/ IncLua(c)

\* Concurrent IncrementViewCount invocations against one KVStore.
SpecView == ViewInit /\ [][ViewNext]_vars

(***************************************************************************)
(* Claims on view accounting.                                              *)
(***************************************************************************)
AllDone == \A c \in Clients : inc[c].pc = "done"

Callers(p, u) == {c \in Clients : inc[c].pc # "idle" /\ inc[c].post = p /\ inc[c].user = u}

\* C1: for a fixed (post, user), the invocations made within one filter TTL,
\* sequential or concurrent, execute the count-and-rank script at most once.
C1_AtMostOneStepPerUser == \A p \in Posts, u \in Users : counted[p][u] <= 1

\* C2: in every state the score of a post in post_rank is its counter: the
\* two writes of the script take effect together or not at all.
C2_ScoreEqualsCounter ==
    /\ DOMAIN postRank = DOMAIN viewCount
    /\ \A p \in DOMAIN viewCount : postRank[p] = viewCount[p]

C2_Witness ==
    \E p \in Posts :
        /\ AllDone
        /\ p \in DOMAIN viewCount /\ viewCount[p] >= 2 /\ postRank[p] = viewCount[p]

\* C3: when every invocation for a post comes from a distinct user, and no
\* KVStore failure and no false positive occurs, then at quiescence every call
\* returned nil and the counter is the number of those users; a BF.RESERVE that
\* finds the filter present neither fails the call nor empties the filter.
C3_DistinctUsersAllCounted ==
    (AllDone /\ faults = 0 /\ ~fpSeen) =>
        \A p \in Posts :
            (\A u \in Users : Cardinality(Callers(p, u)) <= 1) =>
                /\ Get0(viewCount, p) = Cardinality({u \in Users : Callers(p, u) # {}})
                /\ \A u \in Users : \A c \in Callers(p, u) : inc[c].res = "ok"

C3_Witness ==
    \E p \in Posts :
        /\ AllDone /\ faults = 0 /\ ~fpSeen
        /\ \A u \in Users : Cardinality(Callers(p, u)) <= 1
        /\ Cardinality({u \in Users : Callers(p, u) # {}}) >= 2
        /\ \E c \in Clients : inc[c].post = p /\ inc[c].rsv = "item_exists"
        /\ Get0(viewCount, p) >= 2

(***************************************************************************)
(* SnapshotJob: HotPostsCacheTask.syncHotCaches and postTaskCacheImpl       *)
(***************************************************************************)

\* Order of ZREVRANGE: score descending, equal scores by member descending.
\* Members are decimal ids of one digit, whose byte order is numeric order.
Before(rk, a, b) == rk[a] > rk[b] \/ (rk[a] = rk[b] /\ a > b)

RECURSIVE ZRevRangeAll(_)
ZRevRangeAll(rk) ==
    IF DOMAIN rk = {} THEN <<>>
    ELSE LET top == CHOOSE a \in DOMAIN rk : \A b \in DOMAIN rk \ {a} : Before(rk, a, b)
         IN  <<top>> \o ZRevRangeAll(Drop(rk, {top}))

\* ZREVRANGE key start stop (0-based, inclusive): a negative index counts
\* from the end (-1 is the last member), a start before the first member is
\* the first, a stop past the last member is the last.
ZRevRange(rk, start, stop) ==
    LET s == ZRevRangeAll(rk)
        from == IF start < 0 THEN (IF Len(s) + start < 0 THEN 0 ELSE Len(s) + start)
                             ELSE start
        to == IF stop < 0 THEN Len(s) + stop ELSE Min(stop, Len(s) - 1)
    IN  SubSeq(s, from + 1, to + 1)

\* Mutant of CreateHotListLua: ZREVRANGE src 0 n, one entry too many.
CreateHotListLuaOneMore(rk, n) ==
    LET top == Range(ZRevRange(rk, 0, n))
    IN  [p \in top |-> rk[p]]

\* The Lua script of CreateHotList: ZREVRANGE src 0 n-1 WITHSCORES; DEL dst; ZADD dst.
CreateHotListLua(rk, n) ==
    LET top == Range(ZRevRange(rk, 0, n - 1))
    IN  [p \in top |-> rk[p]]

\* Mutant of Summary: the ViewCount of the row is kept (0 for a row the
\* write-back job has not written yet).
SummaryKeepsRowCount(p, score) == [id |-> p, viewCount |-> 0]

\* A cached Post: the DurableStore row with ViewCount replaced by int64(score).
Summary(p, score) == [id |-> p, viewCount |-> score]

\* A cached PostDetailVO: ID from the Post row, ViewCount from the snapshot score.
DetailVO(p, score) == [id |-> p, viewCount |-> score]

\* GetPostsByIDs / GetPostDetailsByPostIDs: WHERE id IN ids, deleted_at IS NULL.
GetPostsByIDs(live, ids) == ids \cap live

\* Mutant of RenameHash: HMSET onto the live key, fields of the old map survive.
MergeIntoLive(live, tmp) ==
    [x \in (DOMAIN live) \cup (DOMAIN tmp) |-> IF x \in DOMAIN tmp THEN tmp[x] ELSE live[x]]

\* RENAME temp final: the final key holds exactly what the temp key held.
RenameHash(live, tmp) == tmp

CycSet(r) == cyc' = r

\* The cron entry fires.
CycStart ==
    /\ cyc.pc = "idle"
    /\ cycles < MaxCycles
    /\ CycSet([IdleCycle EXCEPT !.pc = "s1", !.pre = postsHash, !.data = postsHash,
                                !.gone = HotPosts \ dbLive])
    /\ UNCHANGED <<viewVars, hotRank, postsHash, tmpHash, detail, tmpDetail, dbLive,
                   cycles, views, deletes, obs, reads, pubHot>>
    /\ UNCHANGED <<pg, syncVars, modVars, readVars, schedVars, extVars>>

\* Step 1: CreateHotList.  Its error is logged and the cycle goes on to step 2.
CycCreateHotList ==
    /\ cyc.pc = "s1"
    /\ \/ /\ hotRank' = CreateHotListLua(postRank, HotPostsCacheSize)
          /\ CycSet([cyc EXCEPT !.pc = "s2_read", !.r1 = "ok"])
          /\ UNCHANGED faults
       \/ /\ faults < MaxFaults
          /\ faults' = faults + 1
          /\ \/ hotRank' = CreateHotListLua(postRank, HotPostsCacheSize)
             \/ UNCHANGED hotRank
          /\ CycSet([cyc EXCEPT !.pc = "s2_read", !.r1 = "error", !.fault = TRUE])
    /\ UNCHANGED <<bloom, viewCount, postRank, inc, fpSeen, counted,
                   postsHash, tmpHash, detail, tmpDetail, dbLive,
                   cycles, views, deletes, obs, reads, pubHot>>
    /\ UNCHANGED <<pg, syncVars, modVars, readVars, schedVars, extVars>>

\* Step 2, ZRevRangeWithScores on the hot list.
CycHashRead ==
    /\ cyc.pc = "s2_read"
    /\ \/ /\ LET ids == Range(ZRevRange(hotRank, 0, HotPostsCacheSize - 1))
             IN  CycSet([cyc EXCEPT !.ids = ids,
                                    !.sc = [p \in ids |-> hotRank[p]],
                                    !.data = IF ids = {} THEN EmptyMap ELSE @,
                                    !.pc = IF ids = {} THEN "s2_clear" ELSE "s2_fetch"])
          /\ UNCHANGED faults
       \/ /\ faults < MaxFaults
          /\ faults' = faults + 1
          /\ CycSet([cyc EXCEPT !.pc = "s3_read", !.r2 = "error", !.fault = TRUE])
    /\ UNCHANGED <<bloom, viewCount, postRank, inc, fpSeen, counted,
                   hotRank, postsHash, tmpHash, detail, tmpDetail, dbLive,
                   cycles, views, deletes, obs, reads, pubHot>>
    /\ UNCHANGED <<pg, syncVars, modVars, readVars, schedVars, extVars>>

\* Step 2, empty hot list: DEL of the live hash; a DEL error is logged, nil returned.
CycHashClear ==
    /\ cyc.pc = "s2_clear"
    /\ \/ /\ postsHash' = EmptyMap
          /\ pubHot' = DOMAIN hotRank
          /\ CycSet([cyc EXCEPT !.pc = "s3_read", !.r2 = "ok"])
          /\ UNCHANGED faults
       \/ /\ faults < MaxFaults
          /\ faults' = faults + 1
          /\ CycSet([cyc EXCEPT !.pc = "s3_read", !.r2 = "ok", !.fault = TRUE])
          /\ UNCHANGED <<postsHash, pubHot>>
    /\ UNCHANGED <<bloom, viewCount, postRank, inc, fpSeen, counted,
                   hotRank, tmpHash, detail, tmpDetail, dbLive,
                   cycles, views, deletes, obs, reads>>
    /\ UNCHANGED <<pg, syncVars, modVars, readVars, schedVars, extVars>>

\* Mutant of HashOnFetchError: the live hash is deleted, as in the branch of
\* the empty hot list.
HashClearedOnFetchError(live) == EmptyMap

\* The return on dbErr: no command was issued on the posts key.
HashOnFetchError(live) == live

\* Step 2, GetPostsByIDs and the build of dataToCache; ids missing from the
\* DurableStore are skipped, an empty dataToCache is an error.
CycHashFetch ==
    /\ cyc.pc = "s2_fetch"
    /\ \/ /\ LET found == GetPostsByIDs(dbLive, cyc.ids)
             IN  IF found = {}
                    THEN CycSet([cyc EXCEPT !.f2 = found, !.pc = "s3_read", !.r2 = "error"])
                    ELSE CycSet([cyc EXCEPT !.f2 = found, !.pc = "s2_tmp",
                                            !.data = [p \in found |-> Summary(p, cyc.sc[p])]])
          /\ UNCHANGED <<faults, postsHash>>
       \/ /\ faults < MaxFaults
          /\ faults' = faults + 1
          /\ postsHash' = HashOnFetchError(postsHash)
          /\ CycSet([cyc EXCEPT !.pc = "s3_read", !.r2 = "error", !.fault = TRUE,
                                !.dbErr2 = TRUE])
    /\ UNCHANGED <<bloom, viewCount, postRank, inc, fpSeen, counted,
                   hotRank, tmpHash, detail, tmpDetail, dbLive,
                   cycles, views, deletes, obs, reads, pubHot>>
    /\ UNCHANGED <<pg, syncVars, modVars, readVars, schedVars, extVars>>

\* Step 2, pipeline DEL temp; HMSET temp dataToCache.  On failure the temp key is deleted.
CycHashTemp ==
    /\ cyc.pc = "s2_tmp"
    /\ \/ /\ tmpHash' = cyc.data
          /\ CycSet([cyc EXCEPT !.pc = "s2_rename"])
          /\ UNCHANGED faults
       \/ /\ faults < MaxFaults
          /\ faults' = faults + 1
          /\ tmpHash' = EmptyMap
          /\ CycSet([cyc EXCEPT !.pc = "s3_read", !.r2 = "error", !.fault = TRUE,
                                !.data = cyc.pre])
    /\ UNCHANGED <<bloom, viewCount, postRank, inc, fpSeen, counted,
                   hotRank, postsHash, detail, tmpDetail, dbLive,
                   cycles, views, deletes, obs, reads, pubHot>>
    /\ UNCHANGED <<pg, syncVars, modVars, readVars, schedVars, extVars>>

\* Step 2, RENAME temp -> posts.  A failed RENAME either did not run or ran
\* with its reply lost; the temp key is deleted afterwards.
CycHashRename ==
    /\ cyc.pc = "s2_rename"
    /\ \/ /\ postsHash' = RenameHash(postsHash, tmpHash)
          /\ pubHot' = DOMAIN hotRank
          /\ CycSet([cyc EXCEPT !.pc = "s3_read", !.r2 = "ok"])
          /\ UNCHANGED faults
       \/ /\ faults < MaxFaults
          /\ faults' = faults + 1
          /\ \/ postsHash' = RenameHash(postsHash, tmpHash) /\ pubHot' = DOMAIN hotRank
             \/ UNCHANGED <<postsHash, pubHot>>
          /\ CycSet([cyc EXCEPT !.pc = "s3_read", !.r2 = "error", !.fault = TRUE])
    /\ tmpHash' = EmptyMap
    /\ UNCHANGED <<bloom, viewCount, postRank, inc, fpSeen, counted,
                   hotRank, detail, tmpDetail, dbLive,
                   cycles, views, deletes, obs, reads>>
    /\ UNCHANGED <<pg, syncVars, modVars, readVars, schedVars, extVars>>

\* Step 3, ZRevRangeWithScores on the hot list.
CycDetailRead ==
    /\ cyc.pc = "s3_read"
    /\ \/ /\ LET ids == Range(ZRevRange(hotRank, 0, HotPostsCacheSize - 1))
             IN  CycSet([cyc EXCEPT !.ids = ids,
                                    !.sc = [p \in ids |-> hotRank[p]],
                                    !.pc = IF ids = {} THEN "s3_clear" ELSE "s3_scan"])
          /\ UNCHANGED faults
       \/ /\ faults < MaxFaults
          /\ faults' = faults + 1
          /\ CycSet([cyc EXCEPT !.pc = "end", !.r3 = "error", !.fault = TRUE])
    /\ UNCHANGED <<bloom, viewCount, postRank, inc, fpSeen, counted,
                   hotRank, postsHash, tmpHash, detail, tmpDetail, dbLive,
                   cycles, views, deletes, obs, reads, pubHot>>
    /\ UNCHANGED <<pg, syncVars, modVars, readVars, schedVars, extVars>>

\* The keys post_detail:* of the KVStore: the final keys and the temp keys.
DetailKeys(d, t) ==
    {<<"final", p>> : p \in DOMAIN d} \cup {<<"temp", p>> : p \in DOMAIN t}

\* Step 3, empty hot list: one SCAN call of the loop over post_detail:*.  The
\* keys returned are appended to allDetailKeys; the loop ends on cursor 0,
\* and on a SCAN error, which is logged, with the keys collected so far.
CycDetailClearScan ==
    /\ cyc.pc = "s3_clear"
    /\ LET left == DetailKeys(detail, tmpDetail) \ cyc.acc
       IN  \/ /\ \E batch \in SUBSET left :
                    /\ Cardinality(batch) <= ScanBatchSize
                    /\ batch = {} => left = {}
                    /\ CycSet([cyc EXCEPT !.acc = @ \cup batch,
                                          !.pc = IF left \ batch = {} THEN "s3_clear_del" ELSE @])
              /\ UNCHANGED faults
           \/ /\ faults < MaxFaults
              /\ faults' = faults + 1
              /\ CycSet([cyc EXCEPT !.pc = "s3_clear_del", !.fault = TRUE])
    /\ UNCHANGED <<bloom, viewCount, postRank, inc, fpSeen, counted,
                   hotRank, postsHash, tmpHash, detail, tmpDetail, dbLive,
                   cycles, views, deletes, obs, reads, pubHot>>
    /\ UNCHANGED <<pg, syncVars, modVars, readVars, schedVars, extVars>>

\* Step 3, empty hot list: one DEL of the keys collected, when there are any.
\* A DEL error is logged; nil is returned in every case.
CycDetailClearDel ==
    /\ cyc.pc = "s3_clear_del"
    /\ LET finals == {p \in DOMAIN detail : <<"final", p>> \in cyc.acc}
           temps == {p \in DOMAIN tmpDetail : <<"temp", p>> \in cyc.acc}
       IN  \/ /\ detail' = Drop(detail, finals)
              /\ tmpDetail' = Drop(tmpDetail, temps)
              /\ CycSet([cyc EXCEPT !.pc = "end", !.r3 = "ok"])
              /\ UNCHANGED faults
           \/ /\ cyc.acc # {}
              /\ faults < MaxFaults
              /\ faults' = faults + 1
              /\ CycSet([cyc EXCEPT !.pc = "end", !.r3 = "ok", !.fault = TRUE])
              /\ UNCHANGED <<detail, tmpDetail>>
    /\ UNCHANGED <<bloom, viewCount, postRank, inc, fpSeen, counted,
                   hotRank, postsHash, tmpHash, dbLive,
                   cycles, views, deletes, obs, reads, pubHot>>
    /\ UNCHANGED <<pg, syncVars, modVars, readVars, schedVars, extVars>>

\* finalKeysToDelete: the cached ids that are no longer hot.
FinalKeysToDelete(cached, hot) == cached \ hot

\* Step 3, SCAN of the cached detail keys and the difference: keys whose
\* suffix is not a number (the temp keys) are skipped.
CycDetailScan ==
    /\ cyc.pc = "s3_scan"
    /\ \/ /\ CycSet([cyc EXCEPT !.pc = "s3_posts", !.cached = DOMAIN detail,
                                !.toDel = FinalKeysToDelete(DOMAIN detail, cyc.ids)])
          /\ UNCHANGED faults
       \/ /\ faults < MaxFaults
          /\ faults' = faults + 1
          /\ CycSet([cyc EXCEPT !.pc = "end", !.r3 = "error", !.fault = TRUE])
    /\ UNCHANGED <<bloom, viewCount, postRank, inc, fpSeen, counted,
                   hotRank, postsHash, tmpHash, detail, tmpDetail, dbLive,
                   cycles, views, deletes, obs, reads, pubHot>>
    /\ UNCHANGED <<pg, syncVars, modVars, readVars, schedVars, extVars>>

\* Step 3, GetPostsByIDs of every hot id.
CycDetailPosts ==
    /\ cyc.pc = "s3_posts"
    /\ \/ /\ CycSet([cyc EXCEPT !.pc = "s3_details", !.f3p = GetPostsByIDs(dbLive, cyc.ids)])
          /\ UNCHANGED faults
       \/ /\ faults < MaxFaults
          /\ faults' = faults + 1
          /\ CycSet([cyc EXCEPT !.pc = "end", !.r3 = "error", !.fault = TRUE, !.toDel = {}])
    /\ UNCHANGED <<bloom, viewCount, postRank, inc, fpSeen, counted,
                   hotRank, postsHash, tmpHash, detail, tmpDetail, dbLive,
                   cycles, views, deletes, obs, reads, pubHot>>
    /\ UNCHANGED <<pg, syncVars, modVars, readVars, schedVars, extVars>>

\* Where stage 1 hands over: stage 2 when keys are to be deleted, stage 3
\* when temp keys were written, else the end of the step.
AfterStage1(toDel, toRen) ==
    IF toDel # {} THEN "s3_del" ELSE IF toRen # {} THEN "s3_ren" ELSE "end"

\* Step 3, GetPostDetailsByPostIDs; an id is aggregated when both its Post and
\* its PostDetail were found.  (The image fetch that follows may fail without
\* effect on the keys written; images are not part of the modelled value.)
CycDetailDetails ==
    /\ cyc.pc = "s3_details"
    /\ \/ /\ LET f3d == GetPostsByIDs(dbLive, cyc.ids)
                 agg == cyc.f3p \cap f3d
             IN  IF agg # {}
                    THEN CycSet([cyc EXCEPT !.f3d = f3d, !.toRen = agg, !.pc = "s3_tmp"])
                    ELSE CycSet([cyc EXCEPT !.f3d = f3d,
                                            !.pc = AfterStage1(cyc.toDel, {}),
                                            !.r3 = IF cyc.toDel = {} THEN "ok" ELSE @])
          /\ UNCHANGED faults
       \/ /\ faults < MaxFaults
          /\ faults' = faults + 1
          /\ CycSet([cyc EXCEPT !.pc = "end", !.r3 = "error", !.fault = TRUE, !.toDel = {}])
    /\ UNCHANGED <<bloom, viewCount, postRank, inc, fpSeen, counted,
                   hotRank, postsHash, tmpHash, detail, tmpDetail, dbLive,
                   cycles, views, deletes, obs, reads, pubHot>>
    /\ UNCHANGED <<pg, syncVars, modVars, readVars, schedVars, extVars>>

\* Step 3 stage 1, pipeline of SET post_detail:temp:<id>.  On failure the
\* temp keys of this run are deleted and the step returns the error.
CycDetailTemp ==
    /\ cyc.pc = "s3_tmp"
    /\ \/ /\ tmpDetail' = [p \in (DOMAIN tmpDetail) \cup cyc.toRen |->
                              IF p \in cyc.toRen THEN DetailVO(p, cyc.sc[p]) ELSE tmpDetail[p]]
          /\ CycSet([cyc EXCEPT !.pc = AfterStage1(cyc.toDel, cyc.toRen)])
          /\ UNCHANGED faults
       \/ /\ faults < MaxFaults
          /\ faults' = faults + 1
          /\ tmpDetail' = Drop(tmpDetail, cyc.toRen)
          /\ CycSet([cyc EXCEPT !.pc = "end", !.r3 = "error", !.fault = TRUE,
                                !.toDel = {}, !.toRen = {}, !.cleaned = cyc.toRen])
    /\ UNCHANGED <<bloom, viewCount, postRank, inc, fpSeen, counted,
                   hotRank, postsHash, tmpHash, detail, dbLive,
                   cycles, views, deletes, obs, reads, pubHot>>
    /\ UNCHANGED <<pg, syncVars, modVars, readVars, schedVars, extVars>>

\* Step 3 stage 2, the pipeline of DEL: one queued command per step, in any
\* order (the slice is built from a map).  A pipeline error is a warning;
\* the commands not yet executed are lost and stage 3 follows.
CycDetailDel ==
    /\ cyc.pc = "s3_del"
    /\ \/ /\ \E k \in cyc.toDel :
                LET rest == cyc.toDel \ {k}
                    nxt == IF rest # {} THEN "s3_del" ELSE AfterStage1({}, cyc.toRen)
                IN  /\ detail' = Drop(detail, {k})
                    /\ CycSet([cyc EXCEPT !.toDel = rest, !.pc = nxt,
                                          !.r3 = IF nxt = "end" THEN "ok" ELSE @])
          /\ UNCHANGED faults
       \/ /\ faults < MaxFaults
          /\ faults' = faults + 1
          /\ LET nxt == AfterStage1({}, cyc.toRen)
             IN  CycSet([cyc EXCEPT !.toDel = {}, !.pc = nxt, !.fault = TRUE,
                                    !.r3 = IF nxt = "end" THEN "ok" ELSE @])
          /\ UNCHANGED detail
    /\ UNCHANGED <<bloom, viewCount, postRank, inc, fpSeen, counted,
                   hotRank, postsHash, tmpHash, tmpDetail, dbLive,
                   cycles, views, deletes, obs, reads, pubHot>>
    /\ UNCHANGED <<pg, syncVars, modVars, readVars, schedVars, extVars>>

\* Step 3 stage 3, the pipeline of RENAME temp -> final: one queued command
\* per step, in any order.  A pipeline error is returned at once; the
\* temp keys not yet renamed stay.
CycDetailRename ==
    /\ cyc.pc = "s3_ren"
    /\ \/ /\ \E k \in cyc.toRen :
                LET rest == cyc.toRen \ {k}
                IN  /\ detail' = Put(detail, k, tmpDetail[k])
                    /\ tmpDetail' = Drop(tmpDetail, {k})
                    /\ CycSet([cyc EXCEPT !.toRen = rest,
                                          !.pc = IF rest = {} THEN "end" ELSE @,
                                          !.r3 = IF rest = {} THEN "ok" ELSE @])
          /\ UNCHANGED faults
       \/ /\ faults < MaxFaults
          /\ faults' = faults + 1
          /\ CycSet([cyc EXCEPT !.pc = "end", !.r3 = "error", !.fault = TRUE, !.toRen = {},
                                !.unren = cyc.toRen])
          /\ UNCHANGED <<detail, tmpDetail>>
    /\ UNCHANGED <<bloom, viewCount, postRank, inc, fpSeen, counted,
                   hotRank, postsHash, tmpHash, dbLive,
                   cycles, views, deletes, obs, reads, pubHot>>
    /\ UNCHANGED <<pg, syncVars, modVars, readVars, schedVars, extVars>>

\* syncHotCaches returns.
CycEnd ==
    /\ cyc.pc = "end"
    /\ cycles' = cycles + 1
    /\ CycSet([IdleCycle EXCEPT !.pre = postsHash, !.data = postsHash])
    /\ UNCHANGED <<viewVars, hotRank, postsHash, tmpHash, detail, tmpDetail, dbLive,
                   views, deletes, obs, reads, pubHot>>
    /\ UNCHANGED <<pg, syncVars, modVars, readVars, schedVars, extVars>>

(***************************************************************************)
(* The environment of the snapshot job, and a concurrent reader.           *)
(***************************************************************************)

\* A counted view of post p: the count-and-rank script of IncrementViewCount.
HotView(p) ==
    /\ views < MaxViews
    /\ views' = views + 1
    /\ LET r == LuaIncrAndRank(viewCount, postRank, p)
       IN  viewCount' = r.vc /\ postRank' = r.rk
    /\ UNCHANGED <<bloom, inc, faults, fpSeen, counted,
                   hotRank, postsHash, tmpHash, detail, tmpDetail, dbLive, cyc,
                   cycles, deletes, obs, reads, pubHot>>
    /\ UNCHANGED <<pg, syncVars, modVars, readVars, schedVars, extVars>>

\* The delete transaction: Post and PostDetail get deleted_at together.  No
\* KVStore key is touched.
SoftDelete(p) ==
    /\ deletes < MaxDeletes
    /\ p \in dbLive
    /\ deletes' = deletes + 1
    /\ dbLive' = dbLive \ {p}
    /\ UNCHANGED <<viewVars, hotRank, postsHash, tmpHash, detail, tmpDetail, cyc,
                   cycles, views, obs, reads, pubHot>>
    /\ UNCHANGED <<pg, syncVars, modVars, readVars, schedVars, extVars>>

\* HMGET posts f1 .. fn: the fields present, in one command.
HMGet(h, ids) == [p \in ids \cap (DOMAIN h) |-> h[p]]

\* postCache.GetPosts for every id: the reader's view of the summary map,
\* together with the maps before and after the refresh in progress.
ReadSummaries ==
    /\ reads < MaxReads
    /\ reads' = reads + 1
    /\ obs' = [kind |-> "summaries", id |-> 0, val |-> HMGet(postsHash, HotPosts),
               pre |-> cyc.pre, post |-> cyc.data, pub |-> pubHot]
    /\ UNCHANGED <<viewVars, hotRank, postsHash, tmpHash, detail, tmpDetail, dbLive, cyc,
                   cycles, views, deletes, pubHot>>
    /\ UNCHANGED <<pg, syncVars, modVars, readVars, schedVars, extVars>>

\* GET post_detail:<id>: the value, or redis.Nil (no entry in val).
GetDetail(d, p) == [x \in {p} \cap (DOMAIN d) |-> d[x]]

\* postCache.GetPostDetail(p), stamped with the ids that were in the hot
\* ranking when the summary map was last published.
ReadDetail(p) ==
    /\ reads < MaxReads
    /\ reads' = reads + 1
    /\ obs' = [kind |-> "detail", id |-> p, val |-> GetDetail(detail, p),
               pre |-> EmptyMap, post |-> EmptyMap, pub |-> pubHot]
    /\ UNCHANGED <<viewVars, hotRank, postsHash, tmpHash, detail, tmpDetail, dbLive, cyc,
                   cycles, views, deletes, pubHot>>
    /\ UNCHANGED <<pg, syncVars, modVars, readVars, schedVars, extVars>>

\* post_rank when the snapshot job is first observed: empty, or every post
\* with a score the count-and-rank script can have produced.
InitRanks == {EmptyMap} \cup [HotPosts -> 1..MaxInitScore]

\* post_detail:* when the snapshot job is first observed with both rankings
\* absent: no key, or the details an earlier deployment cached and left
\* behind when its ranking keys were removed.
LeftoverDetails == {EmptyMap, [p \in 1..HotPostsCacheSize |-> DetailVO(p, 1)]}

HotInit ==
    /\ bloom = [x \in {} |-> {}]
    /\ postRank \in InitRanks
    /\ viewCount = postRank
    /\ inc = [c \in Clients |-> IdleClient]
    /\ faults = 0
    /\ fpSeen = FALSE
    /\ counted = [p \in Posts |-> [u \in Users |-> 0]]
    /\ dbLive = HotPosts
    /\ hotRank = EmptyMap /\ postsHash = EmptyMap /\ tmpHash = EmptyMap
    /\ detail \in (IF postRank = EmptyMap THEN LeftoverDetails ELSE {EmptyMap})
    /\ tmpDetail = EmptyMap
    /\ cyc = IdleCycle /\ cycles = 0 /\ views = 0 /\ deletes = 0
    /\ obs = NoObs /\ reads = 0 /\ pubHot = {}
    /\ RestQuiet
    /\ ModQuiet
    /\ ReadQuiet
    /\ SchedQuiet
    /\ ExtQuiet

HotNext ==
    \/ CycStart
    \/ CycCreateHotList
    \/ CycHashRead
    \/ CycHashClear
    \/ CycHashFetch
    \/ CycHashTemp
    \/ CycHashRename
    \/ CycDetailRead
    \/ CycDetailClearScan
    \/ CycDetailClearDel
    \/ CycDetailScan
    \/ CycDetailPosts
    \/ CycDetailDetails
    \/ CycDetailTemp
    \/ CycDetailDel
    \/ CycDetailRename
    \/ CycEnd
    \/ \E p \in HotPosts : HotView(p)
    \/ \E p \in HotPosts : SoftDelete(p)
    \/ ReadSummaries
    \/ \E p \in HotPosts : ReadDetail(p)

\* The snapshot job running against views, deletions and a reader.
SpecHot == HotInit /\ [][HotNext]_vars

(***************************************************************************)
(* Claims on the hot snapshot.                                             *)
(***************************************************************************)

\* C4: whatever the reader's HMGET of the summary hash returns while a
\* refresh is in progress, it is the complete map of before the refresh or
\* the complete map the refresh publishes, never a mixture of the two.
C4_SummaryMapOldOrNew ==
    obs.kind = "summaries" => obs.val \in {obs.pre, obs.post}

C4_Witness ==
    /\ obs.kind = "summaries"
    /\ obs.pre # obs.post
    /\ obs.val = obs.post
    /\ DOMAIN obs.pre # {}
    /\ (DOMAIN obs.pre) \ (DOMAIN obs.post) # {}

CycleReportsSuccess ==
    cyc.pc = "end" /\ cyc.r1 = "ok" /\ cyc.r2 = "ok" /\ cyc.r3 = "ok"

SameIdSet ==
    /\ DOMAIN postsHash = DOMAIN hotRank
    /\ DOMAIN detail = DOMAIN hotRank

\* C5 as stated: when the three steps of a cycle have reported success, the
\* hot ranking, the fields of the summary hash and the cached detail keys
\* hold the same set of ids.
C5_SameIdSetAfterCycle == CycleReportsSuccess => SameIdSet

\* C6 as stated, for behaviours without any failure: a detail read never
\* returns an entry for an id that was not in the hot ranking when the
\* summary map was last published.
C6_NoDetailOutsidePublishedRanking ==
    (faults = 0 /\ obs.kind = "detail" /\ DOMAIN obs.val # {}) => obs.id \in obs.pub

(***************************************************************************)
(* HotReader: HotPostController.GetHotPostsByCursor and                    *)
(* HotPostService.GetHotPostsByCursor over an unchanged snapshot           *)
(***************************************************************************)

\* ZREVRANK: the 0-based position of the member, or redis.Nil, which
\* GetPostRank turns into -1.
GetPostRank(rk, p) ==
    IF p \notin DOMAIN rk THEN 0 - 1
    ELSE LET s == ZRevRangeAll(rk)
         IN  (CHOOSE i \in 1..Len(s) : s[i] = p) - 1

\* GetPostsByRange: invalid ranges give the empty list, else ZREVRANGE.
GetPostsByRange(rk, start, stop) ==
    IF start < 0 \/ (start > stop /\ stop # 0 - 1) THEN <<>> ELSE ZRevRange(rk, start, stop)

\* GetPosts: HMGET in the order requested; fields that are absent are skipped.
RECURSIVE GetPosts(_, _)
GetPosts(h, ids) ==
    IF ids = <<>> THEN <<>>
    ELSE (IF Head(ids) \in DOMAIN h THEN <<h[Head(ids)]>> ELSE <<>>) \o GetPosts(h, Tail(ids))

\* Mutant of NextStart: the next page starts at the cursor's own rank.
SameStart(rank) == rank

\* start = rank + 1: the next page starts after the cursor.
NextStart(rank) == rank + 1

IdsOf(posts) == [i \in DOMAIN posts |-> posts[i].id]

\* response.RespondError(c, status, code, ...), and the request is over.
RespondError(status, code, err) ==
    pg' = [pg EXCEPT !.pc = "done", !.http = status, !.code = code, !.err = err,
                     !.posts = <<>>, !.nextHas = FALSE, !.next = 0]

\* response.RespondSuccess(c, {posts, next_cursor}, ...).
RespondSuccess(posts, nextHas, next) ==
    pg' = [pg EXCEPT !.pc = "done", !.http = 200, !.code = "Success", !.err = "none",
                     !.posts = posts, !.nextHas = nextHas, !.next = next]

\* What the controller calls once the query is parsed: limit <= 0 is a 400;
\* without cursor the service starts at rank 0, else it asks for the rank.
Dispatch(call, fromTop, has, cur, limit, page1) ==
    LET r == [IdlePager EXCEPT !.call = call, !.fromTop = fromTop, !.has = has, !.cur = cur,
                               !.limit = limit, !.page1 = page1]
    IN  IF limit <= 0
           THEN pg' = [r EXCEPT !.pc = "done", !.http = 400, !.code = "ErrCodeClientInvalidInput",
                                !.err = "invalid_limit"]
           ELSE pg' = [r EXCEPT !.pc = IF has THEN "rank" ELSE "range"]

\* A first request: any limit, no cursor or any id as cursor.
ListRequest ==
    /\ pg.pc = "idle"
    /\ \E limit \in 0..MaxLimit :
          \/ Dispatch(1, TRUE, FALSE, 0, limit, <<>>)
          \/ \E cur \in SnapPosts : Dispatch(1, FALSE, TRUE, cur, limit, <<>>)
    /\ UNCHANGED <<viewVars, hotVars>>
    /\ UNCHANGED <<syncVars, modVars, readVars, schedVars, extVars>>

\* The client asks for the next page with the id of the last post returned.
ListFollow ==
    /\ pg.pc = "done" /\ pg.call = 1 /\ pg.http = 200
    /\ pg.posts # <<>>
    /\ Dispatch(2, pg.fromTop, TRUE, pg.posts[Len(pg.posts)].id, pg.limit, IdsOf(pg.posts))
    /\ UNCHANGED <<viewVars, hotVars>>
    /\ UNCHANGED <<syncVars, modVars, readVars, schedVars, extVars>>

\* GetPostRank.  rank -1 is returned as an error built with fmt.Errorf; the
\* controller answers every service error with 500 / ErrCodeServerInternal.
ListRank ==
    /\ pg.pc = "rank"
    /\ \/ /\ LET rank == GetPostRank(hotRank, pg.cur)
             IN  IF rank = 0 - 1
                    THEN RespondError(500, "ErrCodeServerInternal", "cursor_not_in_ranking")
                    ELSE pg' = [pg EXCEPT !.pc = "range", !.start = NextStart(rank)]
          /\ UNCHANGED faults
       \/ /\ faults < MaxFaults
          /\ faults' = faults + 1
          /\ RespondError(500, "ErrCodeServerInternal", "rank_failed")
    /\ UNCHANGED <<bloom, viewCount, postRank, inc, fpSeen, counted, hotVars>>
    /\ UNCHANGED <<syncVars, modVars, readVars, schedVars, extVars>>

\* GetPostsByRange(start, start + limit - 1); no ids: an empty page, no cursor.
ListRange ==
    /\ pg.pc = "range"
    /\ \/ /\ LET ids == GetPostsByRange(hotRank, pg.start, pg.start + pg.limit - 1)
             IN  IF ids = <<>>
                    THEN RespondSuccess(<<>>, FALSE, 0)
                    ELSE pg' = [pg EXCEPT !.pc = "hmget", !.ids = ids]
          /\ UNCHANGED faults
       \/ /\ faults < MaxFaults
          /\ faults' = faults + 1
          /\ RespondError(500, "ErrCodeServerInternal", "range_failed")
    /\ UNCHANGED <<bloom, viewCount, postRank, inc, fpSeen, counted, hotVars>>
    /\ UNCHANGED <<syncVars, modVars, readVars, schedVars, extVars>>

\* GetPosts and the next cursor: the last id of the range when the range is
\* full and at least one summary was found.
ListGetPosts ==
    /\ pg.pc = "hmget"
    /\ \/ /\ LET posts == GetPosts(postsHash, pg.ids)
                 more == Len(pg.ids) = pg.limit /\ Len(posts) > 0
             IN  RespondSuccess(posts, more, IF more THEN pg.ids[Len(pg.ids)] ELSE 0)
          /\ UNCHANGED faults
       \/ /\ faults < MaxFaults
          /\ faults' = faults + 1
          /\ RespondError(500, "ErrCodeServerInternal", "hmget_failed")
    /\ UNCHANGED <<bloom, viewCount, postRank, inc, fpSeen, counted, hotVars>>
    /\ UNCHANGED <<syncVars, modVars, readVars, schedVars, extVars>>

\* A snapshot as the job leaves it: a ranking of some posts, and a summary,
\* with the score as view count, for some of the ranked ids.
SnapRanks == UNION {[S -> 1..MaxSnapScore] : S \in SUBSET SnapPosts}

CursorInit ==
    /\ bloom = [x \in {} |-> {}]
    /\ viewCount = EmptyMap
    /\ postRank = EmptyMap
    /\ inc = [c \in Clients |-> IdleClient]
    /\ faults = 0
    /\ fpSeen = FALSE
    /\ counted = [p \in Posts |-> [u \in Users |-> 0]]
    /\ dbLive = {}
    /\ hotRank \in SnapRanks
    /\ \E F \in SUBSET (DOMAIN hotRank) : postsHash = [p \in F |-> Summary(p, hotRank[p])]
    /\ tmpHash = EmptyMap /\ detail = EmptyMap /\ tmpDetail = EmptyMap
    /\ cyc = IdleCycle /\ cycles = 0 /\ views = 0 /\ deletes = 0
    /\ obs = NoObs /\ reads = 0 /\ pubHot = {}
    /\ RestQuiet
    /\ ModQuiet
    /\ ReadQuiet
    /\ SchedQuiet
    /\ ExtQuiet

CursorNext ==
    \/ ListRequest
    \/ ListFollow
    \/ ListRank
    \/ ListRange
    \/ ListGetPosts

\* One client paging through an unchanged snapshot.
SpecCursor == CursorInit /\ [][CursorNext]_vars

(***************************************************************************)
(* Claims on pagination.                                                   *)
(***************************************************************************)
TwoPagesDone ==
    /\ pg.pc = "done" /\ pg.call = 2 /\ pg.fromTop /\ pg.http = 200

FirstEntries(n) ==
    LET s == ZRevRangeAll(hotRank) IN SubSeq(s, 1, Min(n, Len(s)))

\* C7 as stated: a first page of size L followed by the page after the last
\* id returned gives, concatenated, the first 2L entries of the hot ranking
\* (all of it when it is shorter) in ranking order.
C7_TwoPagesAreFirst2L ==
    TwoPagesDone => pg.page1 \o IdsOf(pg.posts) = FirstEntries(2 * pg.limit)

\* C7, amended: the same, when the summary hash holds a summary for every id
\* of the hot ranking.
C7_TwoPagesAreFirst2LWhenSummariesComplete ==
    (TwoPagesDone /\ DOMAIN hotRank \subseteq DOMAIN postsHash)
        => pg.page1 \o IdsOf(pg.posts) = FirstEntries(2 * pg.limit)

C7_Witness ==
    /\ TwoPagesDone /\ DOMAIN hotRank \subseteq DOMAIN postsHash
    /\ pg.limit >= 2
    /\ Len(pg.page1) = pg.limit /\ Len(pg.posts) = pg.limit
    /\ pg.page1 \o IdsOf(pg.posts) = FirstEntries(2 * pg.limit)

\* C8 as stated: a cursor that is not in the hot ranking is answered with a
\* condition that is not a server error.
C8_CursorExpiredIsNotServerError ==
    (pg.pc = "done" /\ pg.has /\ pg.cur \notin DOMAIN hotRank /\ faults = 0)
        => pg.http # 500 /\ pg.code # "ErrCodeServerInternal"

(***************************************************************************)
(* Write-back: ViewCountSyncTask.syncViewCountsToDB and                    *)
(* postBatchOperationsRepository.BatchUpdatePostViewCounts                 *)
(***************************************************************************)

\* itemsToUpdate: the entries of the map in the order the range loop yields
\* them, which Go leaves unspecified.
ItemOrders(ids) ==
    {s \in [1..Cardinality(ids) -> ids] : \A i, j \in DOMAIN s : i # j => s[i] # s[j]}

\* The batches itemsToUpdate[i:end], i = 0, batchSize, ...
BatchesOf(items, size) ==
    LET total == (Len(items) + size - 1) \div size
    IN  [k \in 1..total |->
            {items[i] : i \in ((k - 1) * size + 1)..Min(k * size, Len(items))}]

\* processBatch: one UPDATE post SET view_count = CASE id ... END
\* WHERE id IN (ids) AND deleted_at IS NULL.
ProcessBatch(db, live, m, batch) ==
    [p \in DOMAIN db |-> IF p \in batch \cap live THEN m[p] ELSE db[p]]

SySet(r) == sy' = r

\* The keys matching post_view_count:*.  Key k > 0 is post_view_count:<k>;
\* key 0 is a key whose suffix is not an unsigned integer.
ScanKeys == 0..NumScanKeys

\* The values of those keys: n >= 0 is the decimal string of n, -1 a string
\* that is not an integer.
ScanValues == (-1)..MaxScanCount

\* strconv.ParseUint on the suffix of the key.
ParseKeyOk(k) == k > 0

\* strconv.ParseInt on the value; a value that does not parse counts as 0.
ParseCount(v) == IF v < 0 THEN 0 ELSE v

\* scanCount: viewSyncCfg.ScanBatchSize, 1000 when it is not positive.
scanCount(cfg) == IF cfg <= 0 THEN 1000 ELSE cfg

\* The inner loop over one SCAN batch: viewCounts[postID] = viewCount, where
\* store is the keyspace MGET read.  A key MGET no longer finds has a nil
\* value and counts as 0.
MergeBatch(acc, store, keys) ==
    [p \in (DOMAIN acc) \cup {k \in keys : ParseKeyOk(k)} |->
        IF p \in keys THEN (IF p \in DOMAIN store THEN ParseCount(store[p]) ELSE 0)
                      ELSE acc[p]]

\* Mutant of GetAllReturn: the error is logged and the map built so far is
\* returned.
GetAllReturnPartial(acc, err) == [nil |-> FALSE, m |-> acc, err |-> <<>>]

\* What GetAllViewCounts returns: (nil, wrapped error) or (viewCounts, nil).
GetAllReturn(acc, err) ==
    IF err # <<>> THEN [nil |-> TRUE, m |-> EmptyMap, err |-> err]
                  ELSE [nil |-> FALSE, m |-> acc, err |-> <<>>]

\* Values viewSyncCfg.ConcurrencyLevel can be configured to.
ConfiguredLevels == (-1)..ConcurrencyLevel

\* Mutant of concurrencyLevel: an invalid value falls back to two workers.
concurrencyLevelFallbackTwo(cfg) == IF cfg <= 0 THEN 2 ELSE cfg

\* Mutant of concurrencyLevel: the configured value is used as it is.
concurrencyLevelAsConfigured(cfg) == cfg

\* concurrencyLevel: the configured value, 1 when it is not positive.
concurrencyLevel(cfg) == IF cfg <= 0 THEN 1 ELSE cfg

\* Values viewSyncCfg.BatchSize can be configured to.
ConfiguredBatchSizes == {0, BatchSize}

\* batchSize: the configured value, 500 when it is not positive.
batchSize(cfg) == IF cfg <= 0 THEN 500 ELSE cfg

\* The cron entry fires; the run gets a context with a deadline and calls
\* GetAllViewCounts.
SyncStart ==
    /\ sy.pc = "idle"
    /\ SySet([IdleSync EXCEPT !.pc = "scan", !.cfg = sy.cfg, !.bs = sy.bs, !.run = sy.run,
                              !.left = DOMAIN viewCount])
    /\ UNCHANGED <<viewVars, dbLive, dbView>>
    /\ UNCHANGED <<snapVars, pg, modVars, readVars, schedVars, extVars>>

\* The deadline of the run passes.
SyncTimeout ==
    /\ sy.pc \in {"scan", "mget", "batch", "pool"}
    /\ ~sy.ctxDone
    /\ SySet([sy EXCEPT !.ctxDone = TRUE])
    /\ UNCHANGED <<viewVars, dbLive, dbView>>
    /\ UNCHANGED <<snapVars, pg, modVars, readVars, schedVars, extVars>>

\* The test of the cursor at the end of an iteration of GetAllViewCounts:
\* cursor 0 returns the map to syncViewCountsToDB.
SyncCursorTest(s, acc1) ==
    IF s.last THEN [s EXCEPT !.pc = "batch", !.acc = acc1, !.M = acc1, !.keys = {},
                             !.left = {}]
              ELSE [s EXCEPT !.pc = "scan", !.acc = acc1, !.keys = {}]

\* One SCAN round trip of GetAllViewCounts; an error, or the context having
\* expired, ends the run.  SCAN returns every key present during the whole
\* iteration at least once before cursor 0; an empty batch skips the MGET.
SyncScan ==
    /\ sy.pc = "scan"
    /\ \/ /\ ~sy.ctxDone
          /\ \E keys \in SUBSET DOMAIN viewCount : \E last \in BOOLEAN :
                /\ Cardinality(keys) <= scanCount(ScanBatchSize)
                /\ keys \cap sy.left # {} \/ sy.left = {}
                /\ last => sy.left \subseteq keys
                /\ LET s1 == [sy EXCEPT !.keys = keys, !.last = last, !.left = @ \ keys]
                   IN  SySet(IF keys = {} THEN SyncCursorTest(s1, sy.acc)
                                         ELSE [s1 EXCEPT !.pc = "mget"])
          /\ UNCHANGED faults
       \/ /\ sy.ctxDone
          /\ SySet([sy EXCEPT !.pc = "done", !.ret = "aborted"])
          /\ UNCHANGED faults
       \/ /\ faults < MaxFaults
          /\ faults' = faults + 1
          /\ SySet([sy EXCEPT !.pc = "done", !.ret = "aborted"])
    /\ UNCHANGED <<bloom, viewCount, postRank, inc, fpSeen, counted, dbLive, dbView>>
    /\ UNCHANGED <<snapVars, pg, modVars, readVars, schedVars, extVars>>

\* The MGET round trip on the keys of the batch, the merge of the values it
\* read and the test of the cursor.
SyncMGet ==
    /\ sy.pc = "mget"
    /\ \/ /\ ~sy.ctxDone
          /\ SySet(SyncCursorTest(sy, MergeBatch(sy.acc, viewCount, sy.keys)))
          /\ UNCHANGED faults
       \/ /\ sy.ctxDone
          /\ SySet([sy EXCEPT !.pc = "done", !.ret = "aborted"])
          /\ UNCHANGED faults
       \/ /\ faults < MaxFaults
          /\ faults' = faults + 1
          /\ SySet([sy EXCEPT !.pc = "done", !.ret = "aborted"])
    /\ UNCHANGED <<bloom, viewCount, postRank, inc, fpSeen, counted, dbLive, dbView>>
    /\ UNCHANGED <<snapVars, pg, modVars, readVars, schedVars, extVars>>

\* syncViewCountsToDB with the map: an empty map ends the run.  Otherwise
\* BatchUpdatePostViewCounts builds the batches and starts its goroutines.
SyncBatches ==
    /\ sy.pc = "batch"
    /\ IF DOMAIN sy.M = {}
          THEN SySet([sy EXCEPT !.pc = "done", !.ret = "empty"])
          ELSE \E items \in ItemOrders(DOMAIN sy.M) :
                  SySet([sy EXCEPT !.pc = "pool",
                                   !.batches = BatchesOf(items, batchSize(sy.bs)),
                                   !.disp = "run",
                                   !.w = [x \in Workers |->
                                             IF x <= concurrencyLevel(sy.cfg)
                                                THEN [pc |-> "recv", b |-> 0]
                                                ELSE [pc |-> "none", b |-> 0]]])
    /\ UNCHANGED <<viewVars, dbLive, dbView>>
    /\ UNCHANGED <<snapVars, pg, modVars, readVars, schedVars, extVars>>

\* The dispatcher: select between ctx.Done() and a send on jobs (capacity
\* concurrencyLevel); close(jobs) when it returns.
SyncDispatch ==
    /\ sy.pc = "pool" /\ sy.disp = "run"
    /\ IF sy.next > Len(sy.batches)
          THEN SySet([sy EXCEPT !.disp = "exit", !.jobsClosed = TRUE])
          ELSE \/ /\ Len(sy.jobs) < concurrencyLevel(sy.cfg)
                  /\ SySet([sy EXCEPT !.jobs = Append(@, sy.next), !.next = @ + 1])
               \/ /\ sy.ctxDone
                  /\ SySet([sy EXCEPT !.disp = "exit", !.jobsClosed = TRUE])
    /\ UNCHANGED <<viewVars, dbLive, dbView>>
    /\ UNCHANGED <<snapVars, pg, modVars, readVars, schedVars, extVars>>

\* A worker: for batch := range jobs.
SyncWorkerRecv(x) ==
    /\ sy.pc = "pool" /\ sy.w[x].pc = "recv"
    /\ \/ /\ sy.jobs # <<>>
          /\ SySet([sy EXCEPT !.jobs = Tail(@), !.w[x] = [pc |-> "work", b |-> Head(sy.jobs)]])
       \/ /\ sy.jobs = <<>> /\ sy.jobsClosed
          /\ SySet([sy EXCEPT !.w[x] = [pc |-> "exit", b |-> 0]])
    /\ UNCHANGED <<viewVars, dbLive, dbView>>
    /\ UNCHANGED <<snapVars, pg, modVars, readVars, schedVars, extVars>>

\* A worker with a batch: the ctx.Done() check, else processBatch; the
\* outcome goes to results (capacity totalBatches).  A failed UPDATE either
\* did not run or ran with its reply lost.
SyncWorkerProcess(x) ==
    /\ sy.pc = "pool" /\ sy.w[x].pc = "work"
    /\ LET b == sy.batches[sy.w[x].b]
           send(r) == SySet([sy EXCEPT !.results = Append(@, r),
                                       !.w[x] = [pc |-> "recv", b |-> 0]])
       IN  \/ /\ sy.ctxDone
              /\ send("cancelled")
              /\ UNCHANGED <<faults, dbView>>
           \/ /\ ~sy.ctxDone
              /\ dbView' = ProcessBatch(dbView, dbLive, sy.M, b)
              /\ send("nil")
              /\ UNCHANGED faults
           \/ /\ ~sy.ctxDone
              /\ faults < MaxFaults
              /\ faults' = faults + 1
              /\ send("failed")
              /\ \/ dbView' = ProcessBatch(dbView, dbLive, sy.M, b)
                 \/ UNCHANGED dbView
    /\ UNCHANGED <<bloom, viewCount, postRank, inc, fpSeen, counted, dbLive>>
    /\ UNCHANGED <<snapVars, pg, modVars, readVars, schedVars, extVars>>

\* The closer: wg.Wait(); close(results).
SyncCloseResults ==
    /\ sy.pc = "pool" /\ ~sy.resultsClosed
    /\ \A x \in Workers : sy.w[x].pc \in {"exit", "none"}
    /\ SySet([sy EXCEPT !.resultsClosed = TRUE])
    /\ UNCHANGED <<viewVars, dbLive, dbView>>
    /\ UNCHANGED <<snapVars, pg, modVars, readVars, schedVars, extVars>>

\* aggregatedErrors: the non-nil results, in the order they were received.
AggregatedErrors(results) == SelectSeq(results, LAMBDA r : r # "nil")

\* for err := range results ends once results is closed; the final error
\* joins the aggregated errors and carries their number, nil is returned
\* when there is none, and syncViewCountsToDB logs and returns.
SyncCollect ==
    /\ sy.pc = "pool" /\ sy.resultsClosed
    /\ SySet([sy EXCEPT !.pc = "done",
                        !.agg = AggregatedErrors(sy.results),
                        !.ret = IF Len(AggregatedErrors(sy.results)) > 0
                                   THEN "error" ELSE "nil"])
    /\ UNCHANGED <<viewVars, dbLive, dbView>>
    /\ UNCHANGED <<snapVars, pg, modVars, readVars, schedVars, extVars>>

\* Counters as the count-and-rank script leaves them, and any set of live rows.
SyncInit ==
    /\ bloom = [x \in {} |-> {}]
    /\ viewCount \in UNION {[S -> 1..MaxSyncCount] : S \in SUBSET SyncPosts}
    /\ postRank = viewCount
    /\ inc = [c \in Clients |-> IdleClient]
    /\ faults = 0
    /\ fpSeen = FALSE
    /\ counted = [p \in Posts |-> [u \in Users |-> 0]]
    /\ dbLive \in SUBSET SyncPosts
    /\ HotQuiet
    /\ pg = IdlePager
    /\ sy \in {[IdleSync EXCEPT !.cfg = c, !.bs = b] :
                 c \in ConfiguredLevels, b \in ConfiguredBatchSizes}
    /\ dbView = [p \in SyncPosts |-> 0]
    /\ ModQuiet
    /\ ReadQuiet
    /\ SchedQuiet
    /\ ExtQuiet

SyncNext ==
    \/ SyncStart
    \/ SyncTimeout
    \/ SyncScan
    \/ SyncMGet
    \/ SyncBatches
    \/ SyncDispatch
    \/ \E x \in Workers : SyncWorkerRecv(x)
    \/ \E x \in Workers : SyncWorkerProcess(x)
    \/ SyncCloseResults
    \/ SyncCollect

\* One run of the write-back job.
SpecSync == SyncInit /\ [][SyncNext]_vars

\* One run of the write-back job with every goroutine of the pool scheduled
\* again and again; the deadline of the run may pass or not.
SpecSyncFair ==
    /\ SpecSync
    /\ WF_vars(SyncStart) /\ WF_vars(SyncScan) /\ WF_vars(SyncMGet) /\ WF_vars(SyncBatches)
    /\ WF_vars(SyncDispatch)
    /\ \A x \in Workers : WF_vars(SyncWorkerRecv(x)) /\ WF_vars(SyncWorkerProcess(x))
    /\ WF_vars(SyncCloseResults) /\ WF_vars(SyncCollect)

\* syncViewCountsToDB has returned to the scheduler.
SyncReturn ==
    /\ sy.pc = "done"
    /\ sy.run + 1 < MaxRuns
    /\ SySet([IdleSync EXCEPT !.cfg = sy.cfg, !.bs = sy.bs, !.run = sy.run + 1])
    /\ UNCHANGED <<viewVars, dbLive, dbView>>
    /\ UNCHANGED <<snapVars, pg, modVars, readVars, schedVars, extVars>>

\* A view counted while the job runs or between its runs: the count-and-rank
\* script of a concurrent IncrementViewCount.
SyncView(p) ==
    /\ views < MaxSyncViews
    /\ views' = views + 1
    /\ LET r == LuaIncrAndRank(viewCount, postRank, p)
       IN  viewCount' = r.vc /\ postRank' = r.rk
    /\ UNCHANGED <<bloom, inc, faults, fpSeen, counted,
                   hotRank, postsHash, tmpHash, detail, tmpDetail, dbLive, cyc,
                   cycles, deletes, obs, reads, pubHot>>
    /\ UNCHANGED <<pg, syncVars, modVars, readVars, schedVars, extVars>>

\* view_count of the rows when the job is first observed: 0 as CreatePost
\* leaves it, or the count the seeder gave the rows.
SeededViews == {[p \in SyncPosts |-> 0], [p \in SyncPosts |-> SeedViewCount]}

\* A counter leaves the keyspace (eviction, a restart of Redis without its
\* data, DEL by an operator), counted among the failures of the KVStore; the
\* program itself never deletes one.  A loss while the pool runs shows in
\* the next read at the earliest, as does a loss before that read.
SyncRemove(p) ==
    /\ sy.pc \in {"idle", "scan", "mget"}
    /\ p \in DOMAIN viewCount
    /\ faults < MaxFaults
    /\ faults' = faults + 1
    /\ viewCount' = [x \in (DOMAIN viewCount) \ {p} |-> viewCount[x]]
    /\ SySet([sy EXCEPT !.left = @ \ {p}])
    /\ UNCHANGED <<bloom, postRank, inc, fpSeen, counted, dbLive, dbView>>
    /\ UNCHANGED <<snapVars, pg, modVars, readVars, schedVars, extVars>>

\* Counters as the count-and-rank script leaves them after one view, for
\* some of the posts; every post has a live row.
WritebackInit ==
    /\ bloom = [x \in {} |-> {}]
    /\ viewCount \in {[p \in S |-> 1] : S \in SUBSET SyncPosts}
    /\ postRank = viewCount
    /\ inc = [c \in Clients |-> IdleClient]
    /\ faults = 0
    /\ fpSeen = FALSE
    /\ counted = [p \in Posts |-> [u \in Users |-> 0]]
    /\ dbLive = SyncPosts
    /\ HotQuiet
    /\ pg = IdlePager
    /\ sy = IdleSync
    /\ dbView \in SeededViews
    /\ ModQuiet
    /\ ReadQuiet
    /\ SchedQuiet
    /\ ExtQuiet

WritebackNext ==
    \/ SyncStart
    \/ SyncTimeout
    \/ SyncScan
    \/ SyncMGet
    \/ SyncBatches
    \/ SyncDispatch
    \/ \E x \in Workers : SyncWorkerRecv(x)
    \/ \E x \in Workers : SyncWorkerProcess(x)
    \/ SyncCloseResults
    \/ SyncCollect
    \/ SyncReturn
    \/ \E p \in SyncPosts : SyncView(p)
    \/ \E p \in SyncPosts : SyncRemove(p)

\* Successive runs of the write-back job with views counted in between and
\* while a run is in progress.
SpecWriteback == WritebackInit /\ [][WritebackNext]_vars

(***************************************************************************)
(* Claims on write-back.                                                   *)
(***************************************************************************)

\* C9 as stated, for runs whose BatchUpdatePostViewCounts returned nil: when
\* the run that consumed M has completed, the view_count of every live row
\* whose id is in M equals M[id].
C9_WrittenBackAfterRun ==
    (sy.pc = "done" /\ sy.ret = "nil")
        => \A p \in (DOMAIN sy.M) \cap dbLive : dbView[p] = sy.M[p]

(***************************************************************************)
(* Moderation: Consumer.Start, ApprovedAuditHandler.Handle,                *)
(* RejectedAuditHandler.Handle, postAdminService.AuditPost and             *)
(* postAdminRepository.UpdatePostStatus                                    *)
(***************************************************************************)

\* A Go error is the chain of its wrapping layers, outermost first; nil is
\* the empty chain.  errors.Is walks the chain.
ErrorsIs(err, target) == \E i \in DOMAIN err : err[i] = target

\* The row a statement with "id = ? AND deleted_at IS NULL" meets.
RowState(db, p) ==
    IF p \notin DOMAIN db THEN "absent"
    ELSE IF db[p].deleted THEN "deleted" ELSE "live"

\* UPDATE post SET status, updated_at, audit_reason WHERE id = ? AND
\* deleted_at IS NULL; RowsAffected = 0 is ErrRepoNotFound.
UpdatePostStatus(db, p, status, reason) ==
    IF RowState(db, p) = "live"
       THEN [db |-> [db EXCEPT ![p].status = status, ![p].reason = reason],
             err |-> <<>>]
       ELSE [db |-> db, err |-> <<"ErrRepoNotFound">>]

\* Mutant of AuditReason: the reason of the request is stored as it is.
AuditReasonAsGiven(status, reason) == reason

\* AuditPost stores the reason only for Rejected with a non-empty reason.
AuditReason(status, reason) ==
    IF status = "Rejected" /\ reason # "" THEN reason ELSE "NULL"

\* Mutant of AuditPostError: the repository error is formatted into the
\* message and not wrapped.
AuditPostErrorOpaque(err) == IF err = <<>> THEN <<>> ELSE <<"AuditPost">>

\* AuditPost returns fmt.Errorf("...: %w", err) for every repository error.
AuditPostError(err) == IF err = <<>> THEN <<>> ELSE <<"AuditPost">> \o err

\* What Handle returns for the error of AuditPost.
HandleReturn(err) ==
    IF err = <<>> \/ ErrorsIs(err, "ErrRepoNotFound") THEN <<>> ELSE <<"Handle">> \o err

\* The request each handler builds: Approved with an empty reason, Rejected
\* with the composed reason, which always begins with "Suggestion: ".
RequestOf(t) ==
    IF t = "approved" THEN [status |-> "Approved", reason |-> ""]
                      ELSE [status |-> "Rejected", reason |-> "Suggestion"]

\* The audit service publishes an event; its payload parses or does not.
ModPublish(t) ==
    /\ Len(md.log["approved"]) + Len(md.log["rejected"]) < MaxEvents
    /\ \E p \in ModPosts, ok \in BOOLEAN :
          md' = [md EXCEPT !.log[t] = Append(@, [post |-> p, ok |-> ok])]
    /\ UNCHANGED <<viewVars, hotVars, pg, syncVars, dbPost, readVars, schedVars, extVars>>

\* DeletePostByAdmin / DeletePost: the row gets a deleted_at.
ModSoftDelete(p) ==
    /\ RowState(dbPost, p) = "live"
    /\ dbPost' = [dbPost EXCEPT ![p].deleted = TRUE]
    /\ UNCHANGED <<viewVars, hotVars, pg, syncVars, md, readVars, schedVars, extVars>>

\* Consumer.Start: ReadMessage returns the message at the group's offset
\* and commits the offset after it.
ConsumerRead(t) ==
    /\ md.con[t].pc = "read"
    /\ md.off[t] <= Len(md.log[t])
    /\ md' = [md EXCEPT !.con[t] = [pc |-> "handle", at |-> md.off[t],
                                    msg |-> md.log[t][md.off[t]]],
                        !.off[t] = @ + 1]
    /\ UNCHANGED <<viewVars, hotVars, pg, syncVars, dbPost, readVars, schedVars, extVars>>

\* handler.Handle(msg), and the loop of Consumer.Start after it: an error is
\* logged and the loop goes on to the next ReadMessage.  A failed UPDATE
\* either did not run or ran with its reply lost.
ConsumerHandle(t) ==
    /\ md.con[t].pc = "handle"
    /\ LET m == md.con[t].msg
           q == RequestOf(t)
           u == UpdatePostStatus(dbPost, m.post, q.status, AuditReason(q.status, q.reason))
           back(row, io, ret) ==
               md' = [md EXCEPT !.con[t] = IdleConsumer,
                                !.last[t] = [at |-> md.con[t].at, post |-> m.post,
                                             ok |-> m.ok, row |-> row, io |-> io,
                                             ret |-> ret]]
       IN  \/ /\ ~m.ok                       \* json.Unmarshal failed
              /\ back("none", FALSE, <<>>)
              /\ UNCHANGED <<dbPost, faults>>
           \/ /\ m.ok
              /\ dbPost' = u.db
              /\ back(RowState(dbPost, m.post), FALSE, HandleReturn(AuditPostError(u.err)))
              /\ UNCHANGED faults
           \/ /\ m.ok
              /\ faults < MaxFaults
              /\ faults' = faults + 1
              /\ back(RowState(dbPost, m.post), TRUE,
                      HandleReturn(AuditPostError(<<"db_error">>)))
              /\ \/ dbPost' = u.db
                 \/ UNCHANGED dbPost
    /\ UNCHANGED <<bloom, viewCount, postRank, inc, fpSeen, counted, hotVars, pg, syncVars,
                   readVars, schedVars, extVars>>

\* POST /admin/posts/audit: PostAdminController.AuditPost binds the request
\* (status 0..2, optional reason) and calls AuditPost; a post that is not
\* found is a 404 and changes nothing.
AdminAudit(p, status, reason) ==
    /\ dbPost' = UpdatePostStatus(dbPost, p, status, AuditReason(status, reason)).db
    /\ dbPost' # dbPost
    /\ UNCHANGED <<viewVars, hotVars, pg, syncVars, md, readVars, schedVars, extVars>>

\* Any set of pending posts, two consumers started, empty topics.
ModInit ==
    /\ bloom = [x \in {} |-> {}]
    /\ viewCount = EmptyMap
    /\ postRank = EmptyMap
    /\ inc = [c \in Clients |-> IdleClient]
    /\ faults = 0
    /\ fpSeen = FALSE
    /\ counted = [p \in Posts |-> [u \in Users |-> 0]]
    /\ dbLive = {}
    /\ HotQuiet
    /\ RestQuiet
    /\ \E S \in SUBSET ModPosts :
          dbPost = [p \in S |-> [status |-> "Pending", reason |-> "NULL", deleted |-> FALSE]]
    /\ md = IdleMod
    /\ ReadQuiet
    /\ SchedQuiet
    /\ ExtQuiet

ModNext ==
    \/ \E t \in Topics : ModPublish(t)
    \/ \E p \in ModPosts : ModSoftDelete(p)
    \/ \E t \in Topics : ConsumerRead(t)
    \/ \E t \in Topics : ConsumerHandle(t)
    \/ \E p \in ModPosts, status \in {"Pending", "Approved", "Rejected"},
          reason \in {"", "spam"} : AdminAudit(p, status, reason)

\* The two moderation consumers against publications and deletions.
SpecMod == ModInit /\ [][ModNext]_vars

(***************************************************************************)
(* Claims on moderation.                                                   *)
(***************************************************************************)

\* C10: an approved or rejected event with a well-formed payload whose post
\* row is absent or soft-deleted when the status update reaches the
\* DurableStore makes its handler return no error, and the committed offset
\* of the topic is past the event, so it is not delivered again.
C10_MissingPostAcknowledged ==
    \A t \in Topics :
        (md.last[t].ok /\ ~md.last[t].io /\ md.last[t].row \in {"absent", "deleted"})
            => /\ md.last[t].ret = <<>>
               /\ md.off[t] > md.last[t].at

C10_Witness ==
    /\ md.last["approved"].ok /\ ~md.last["approved"].io
    /\ md.last["approved"].row = "deleted" /\ md.last["approved"].ret = <<>>
    /\ md.off["approved"] > md.last["approved"].at
    /\ md.last["rejected"].ok /\ ~md.last["rejected"].io
    /\ md.last["rejected"].row = "absent" /\ md.last["rejected"].ret = <<>>
    /\ md.off["rejected"] > md.last["rejected"].at

\* C11 as stated: when the status update of a well-formed event fails for a
\* reason other than row-not-found, the handler returns the failure and the
\* committed offset of the topic is not past the event, so that the event is
\* delivered again.
C11_FailureKeepsOffset ==
    \A t \in Topics :
        (md.last[t].ok /\ md.last[t].io)
            => /\ md.last[t].ret # <<>>
               /\ md.off[t] <= md.last[t].at

\* C26: a stored audit reason is non-null only on a rejected post and is
\* then the non-empty reason supplied; an approved event handled on a live
\* row leaves the post approved with a null reason.
C26_ReasonOnlyWhenRejected ==
    /\ [](\A p \in DOMAIN dbPost :
             dbPost[p].reason # "NULL"
                 => dbPost[p].status = "Rejected" /\ dbPost[p].reason # "")
    /\ [][( /\ md'.last["approved"] # md.last["approved"]
            /\ md'.last["approved"].ok /\ ~md'.last["approved"].io
            /\ md'.last["approved"].row = "live")
          => LET p == md'.last["approved"].post
             IN  dbPost'[p].status = "Approved" /\ dbPost'[p].reason = "NULL"]_vars

\* A post was rejected by an event, which stored the composed reason, and
\* approved by a later event: it is approved and its reason is null.
C26_Witness ==
    /\ md.last["rejected"].ok /\ md.last["rejected"].row = "live" /\ ~md.last["rejected"].io
    /\ md.last["approved"].ok /\ md.last["approved"].row = "live" /\ ~md.last["approved"].io
    /\ md.last["approved"].post = md.last["rejected"].post
    /\ LET p == md.last["approved"].post
       IN  p \in DOMAIN dbPost /\ dbPost[p].status = "Approved" /\ dbPost[p].reason = "NULL"

(***************************************************************************)
(* Further claims on the snapshot job.                                     *)
(***************************************************************************)
IsTopN(h, rk, n) ==
    /\ DOMAIN h \subseteq DOMAIN rk
    /\ \A p \in DOMAIN h : h[p] = rk[p]
    /\ Cardinality(DOMAIN h) = Min(n, Cardinality(DOMAIN rk))
    /\ \A a \in DOMAIN h, b \in (DOMAIN rk) \ (DOMAIN h) : Before(rk, a, b)

\* C12: the step in which CreateHotList succeeds leaves in the hot ranking
\* exactly the top-N entries, with their scores, of the global ranking of
\* the state it ran in, so at most N entries and no prior entry outside that
\* top-N; no other step changes the hot ranking, so every state a reader can
\* observe holds the ranking before or after the replacement.
C12_HotRankingIsTopN ==
    [][/\ (cyc.pc = "s1" /\ cyc'.r1 = "ok")
            => /\ IsTopN(hotRank', postRank, HotPostsCacheSize)
               /\ Cardinality(DOMAIN hotRank') <= HotPostsCacheSize
       /\ cyc.pc # "s1" => hotRank' = hotRank]_vars

\* A successful step 1 has just dropped an entry of the previous snapshot.
C12_Witness ==
    /\ cyc.pc = "s2_read" /\ cyc.r1 = "ok"
    /\ Cardinality(DOMAIN hotRank) = HotPostsCacheSize
    /\ pubHot \ (DOMAIN hotRank) # {}
    /\ IsTopN(hotRank, postRank, HotPostsCacheSize)

\* C13: a step that publishes the summary map leaves in it, for every id,
\* the score the id has in the hot ranking as view count; a step that
\* publishes or replaces a detail object leaves in it the score its id has
\* in the hot ranking.  (The hot ranking changes only in step 1, so it is the
\* snapshot of the cycle that publishes.)
C13_PublishedViewCountIsSnapshotScore ==
    [][/\ postsHash' # postsHash
            => \A p \in DOMAIN postsHash' :
                  p \in DOMAIN hotRank /\ postsHash'[p].viewCount = hotRank[p]
       /\ \A k \in DOMAIN detail' :
             (k \notin DOMAIN detail \/ detail'[k] # detail[k])
                => k \in DOMAIN hotRank /\ detail'[k].viewCount = hotRank[k]]_vars

\* A cycle has published summaries and details, one of them with a score
\* that differs from the one published before.
C13_Witness ==
    /\ cyc.pc = "end" /\ cyc.r2 = "ok" /\ cyc.r3 = "ok"
    /\ DOMAIN postsHash # {} /\ DOMAIN detail = DOMAIN postsHash
    /\ \A p \in DOMAIN postsHash :
          postsHash[p].viewCount = hotRank[p] /\ detail[p].viewCount = hotRank[p]
    /\ \E p \in (DOMAIN cyc.pre) \cap (DOMAIN postsHash) :
          cyc.pre[p].viewCount # postsHash[p].viewCount

(***************************************************************************)
(* Further claims on pagination.                                           *)
(***************************************************************************)

\* C14 as stated: a successful list-by-cursor returns a next cursor exactly
\* when limit ids were read from the hot ranking, and the cursor is then the
\* last id read.
C14_NextCursorIffFullRange ==
    (pg.pc = "done" /\ pg.http = 200)
        => /\ pg.nextHas <=> Len(pg.ids) = pg.limit
           /\ pg.nextHas => pg.next = pg.ids[Len(pg.ids)]

(***************************************************************************)
(* Request handlers: HotPostController.GetHotPostDetail,                   *)
(* HotPostService.GetHotPostDetail and cacheImpl.GetPostDetail             *)
(***************************************************************************)

\* cacheImpl.GetPostDetail on a reply of GET: redis.Nil is the sentinel
\* ErrCacheMiss, returned bare; a payload that does not parse and any other
\* Redis error are wrapped with %w.
CacheGetPostDetail(d, bad, p, ioFails) ==
    IF ioFails THEN [cause |-> "io", err |-> <<"GetPostDetail", "redis_error">>]
    ELSE IF p \notin DOMAIN d THEN [cause |-> "miss", err |-> <<"ErrCacheMiss">>]
    ELSE IF p \in bad THEN [cause |-> "corrupt", err |-> <<"GetPostDetail", "json_error">>]
    ELSE [cause |-> "hit", err |-> <<>>]

\* HotPostController.GetHotPostDetail on the result of the service: every
\* error is a 500 (the 404 branch needs a nil result without error, which
\* the service never returns).
HotDetailResponse(err) ==
    IF err = <<>> THEN [http |-> 200, code |-> "Success"]
                  ELSE [http |-> 500, code |-> "ErrCodeServerInternal"]

\* go func(...) { ... }(): a goroutine whose context has the given deadline
\* in seconds, 0 when it has none.
Spawn(kind, deadline, p) ==
    tasks' = tasks \cup {[kind |-> kind, deadline |-> deadline, post |-> p, st |-> "running"]}

RqDone(kind, p, cause, err, r) ==
    rq' = [rq EXCEPT !.pc = "done", !.kind = kind, !.id = p, !.cause = cause, !.err = err,
                     !.http = r.http, !.code = r.code]

\* GET /hot-posts/:post_id up to the service's cache read: a post_id that
\* does not parse is a 400, an empty UserID a 401; else the service detaches
\* the view increment (2 s deadline) and goes on to the cache.
HotDetailRequest ==
    /\ rq.pc = "idle"
    /\ \/ /\ RqDone("hot_detail", 0, "none", <<>>,
                    [http |-> 400, code |-> "ErrCodeClientInvalidInput"])
          /\ UNCHANGED tasks
       \/ \E p \in ReadPosts :
             \/ /\ RqDone("hot_detail", p, "none", <<>>,
                          [http |-> 401, code |-> "ErrCodeClientUnauthorized"])
                /\ UNCHANGED tasks
             \/ /\ rq' = [IdleRequest EXCEPT !.pc = "hot_get", !.kind = "hot_detail", !.id = p,
                                          !.user = TRUE]
                /\ Spawn("hot_increment", 2, p)
    /\ UNCHANGED <<viewVars, hotVars, pg, syncVars, modVars, badJson, schedVars, extVars>>

\* postCache.GetPostDetail, the service handing its error on unchanged, and
\* the controller's response.
HotDetailGet ==
    /\ rq.pc = "hot_get"
    /\ \/ /\ LET g == CacheGetPostDetail(detail, badJson, rq.id, FALSE)
                 r == HotDetailResponse(g.err)
             IN  rq' = [rq EXCEPT !.pc = "done", !.cause = g.cause, !.err = g.err,
                                  !.http = r.http, !.code = r.code,
                                  !.shown = IF g.err = <<>> THEN "cached" ELSE "none"]
          /\ UNCHANGED faults
       \/ /\ faults < MaxFaults
          /\ faults' = faults + 1
          /\ LET g == CacheGetPostDetail(detail, badJson, rq.id, TRUE)
             IN  RqDone("hot_detail", rq.id, g.cause, g.err, HotDetailResponse(g.err))
    /\ UNCHANGED <<bloom, viewCount, postRank, inc, fpSeen, counted, hotVars, pg,
                   syncVars, modVars, badJson, tasks, schedVars, extVars>>

\* postRepository.GetPostByID and postDetailRepository.GetPostDetailByPostID:
\* First(&row, id), which GORM restricts to deleted_at IS NULL, and nothing
\* else; no row is ErrRepoNotFound, returned bare.
GetPostByID(db, p) ==
    IF RowState(db, p) = "live" THEN [err |-> <<>>, status |-> db[p].status]
                                ELSE [err |-> <<"ErrRepoNotFound">>, status |-> "none"]

\* GET /posts/:post_id up to the first query of the service; the UserID may
\* be empty.
ByIdRequest ==
    /\ rq.pc = "idle"
    /\ \/ RqDone("by_id", 0, "none", <<>>, [http |-> 400, code |-> "ErrCodeClientInvalidInput"])
       \/ \E p \in ReadPosts, u \in BOOLEAN :
             rq' = [IdleRequest EXCEPT !.pc = "by_id_post", !.kind = "by_id", !.id = p,
                                       !.user = u]
    /\ UNCHANGED <<viewVars, hotVars, pg, syncVars, modVars, badJson, tasks, schedVars, extVars>>

\* postService.GetPostDetailByPostID, the Post row.
ByIdPost ==
    /\ rq.pc = "by_id_post"
    /\ \/ /\ LET g == GetPostByID(dbPost, rq.id)
             IN  IF g.err # <<>>
                    THEN RqDone("by_id", rq.id, "not_found", g.err, HotDetailResponse(g.err))
                    ELSE rq' = [rq EXCEPT !.pc = "by_id_detail", !.shown = g.status]
          /\ UNCHANGED faults
       \/ /\ faults < MaxFaults
          /\ faults' = faults + 1
          /\ RqDone("by_id", rq.id, "io", <<"db_error">>, HotDetailResponse(<<"db_error">>))
    /\ UNCHANGED <<bloom, viewCount, postRank, inc, fpSeen, counted, hotVars, pg,
                   syncVars, modVars, badJson, tasks, schedVars, extVars>>

\* postService.GetPostDetailByPostID, the PostDetail row and its images;
\* then, for a non-empty UserID, the detached view increment on
\* context.Background(), and the response of the controller.
ByIdDetail ==
    /\ rq.pc = "by_id_detail"
    /\ \/ /\ LET g == GetPostByID(dbPost, rq.id)
             IN  IF g.err # <<>>
                    THEN /\ rq' = [rq EXCEPT !.pc = "done", !.cause = "not_found", !.err = g.err,
                                             !.http = 500, !.code = "ErrCodeServerInternal",
                                             !.shown = "none"]
                         /\ UNCHANGED tasks
                    ELSE /\ RqDone("by_id", rq.id, "hit", <<>>, HotDetailResponse(<<>>))
                         /\ IF rq.user THEN Spawn("by_id_increment", 0, rq.id)
                                       ELSE UNCHANGED tasks
          /\ UNCHANGED faults
       \/ /\ faults < MaxFaults
          /\ faults' = faults + 1
          /\ rq' = [rq EXCEPT !.pc = "done", !.cause = "io", !.err = <<"db_error">>,
                              !.http = 500, !.code = "ErrCodeServerInternal",
                              !.shown = "none"]
          /\ UNCHANGED tasks
    /\ UNCHANGED <<bloom, viewCount, postRank, inc, fpSeen, counted, hotVars, pg,
                   syncVars, modVars, badJson, schedVars, extVars>>

\* The client on which the detached increment of the request runs.  A
\* behaviour holds one request, so at most one task.
TaskClient == 1

\* The goroutine begins: IncrementViewCount(ctx, postID, userID) is called
\* for the one user of the request.
TaskStart ==
    \E t \in tasks :
        /\ t.st = "running"
        /\ t.kind \in {"hot_increment", "by_id_increment"}
        /\ inc[TaskClient].pc = "idle"
        /\ tasks' = (tasks \ {t}) \cup {[t EXCEPT !.st = "started"]}
        /\ inc' = [inc EXCEPT ![TaskClient] = [pc |-> "reserve", post |-> t.post, user |-> 1,
                                               rsv |-> "none", res |-> "none"]]
        /\ UNCHANGED <<bloom, viewCount, postRank, faults, fpSeen, counted, hotVars, pg,
                       syncVars, modVars, rq, badJson, schedVars, extVars>>

\* The context of the goroutine expires (context.WithTimeout, 2 s) while a
\* command is outstanding: the command returns the context's error and the
\* call ends with it (after EXPIRE, whose error is only logged, the script's
\* Run fails the same way).  The script may have run before its reply was
\* given up.
TaskDeadline ==
    \E t \in tasks :
        /\ t.st = "started"
        /\ t.deadline > 0
        /\ inc[TaskClient].pc \in {"reserve", "exists", "add", "expire", "lua"}
        /\ Finish(TaskClient, "error")
        /\ IF inc[TaskClient].pc = "lua"
              THEN LET r == LuaIncrAndRank(viewCount, postRank, t.post)
                   IN  \/ /\ viewCount' = r.vc
                          /\ postRank' = r.rk
                          /\ counted' = [counted EXCEPT ![t.post][1] = @ + 1]
                       \/ UNCHANGED <<viewCount, postRank, counted>>
              ELSE UNCHANGED <<viewCount, postRank, counted>>
        /\ UNCHANGED <<bloom, faults, fpSeen, tasks, hotVars, pg, syncVars, modVars,
                       rq, badJson, schedVars, extVars>>

\* IncrementViewCount has returned; the goroutine logs an error and ends.
TaskEnd ==
    \E t \in tasks :
        /\ t.st = "started"
        /\ inc[TaskClient].pc = "done"
        /\ tasks' = (tasks \ {t}) \cup {[t EXCEPT !.st = "done"]}
        /\ UNCHANGED <<viewVars, hotVars, pg, syncVars, modVars, rq, badJson, schedVars,
                       extVars>>

\* The detail cache as a cycle left it, with any of its values damaged; the
\* view filter of one post may hold users whose earlier call added them (the
\* counter is absent when that call's script failed).
ReadInit ==
    /\ \E q \in ReadPosts, S \in SUBSET Users :
          bloom = IF S = {} THEN EmptyMap ELSE [p \in {q} |-> S]
    /\ viewCount = EmptyMap
    /\ postRank = EmptyMap
    /\ inc = [c \in Clients |-> IdleClient]
    /\ faults = 0
    /\ fpSeen = FALSE
    /\ counted = [p \in ReadPosts |-> [u \in Users |-> 0]]
    /\ dbLive = {}
    /\ hotRank = EmptyMap /\ postsHash = EmptyMap /\ tmpHash = EmptyMap
    /\ \E S \in SUBSET ReadPosts : detail = [p \in S |-> DetailVO(p, 1)]
    /\ dbPost \in [ReadPosts -> [status : {"Pending", "Approved", "Rejected"},
                                 reason : {"NULL"}, deleted : BOOLEAN]]
    /\ tmpDetail = EmptyMap
    /\ cyc = IdleCycle /\ cycles = 0 /\ views = 0 /\ deletes = 0
    /\ obs = NoObs /\ reads = 0 /\ pubHot = {}
    /\ RestQuiet
    /\ md = IdleMod
    /\ rq = IdleRequest
    /\ badJson \in SUBSET (DOMAIN detail)
    /\ tasks = {}
    /\ SchedQuiet
    /\ ExtQuiet

ReadNext ==
    \/ HotDetailRequest
    \/ HotDetailGet
    \/ ByIdRequest
    \/ ByIdPost
    \/ ByIdDetail
    \/ TaskStart
    \/ IncReserve(TaskClient)
    \/ IncExists(TaskClient)
    \/ IncAdd(TaskClient)
    \/ IncExpire(TaskClient)
    \/ IncLua(TaskClient)
    \/ TaskDeadline
    \/ TaskEnd
    \/ \E p \in ReadPosts : ModSoftDelete(p)

\* One request against the caches and the DurableStore.
SpecRead == ReadInit /\ [][ReadNext]_vars

(***************************************************************************)
(* Claims on detail reads.                                                 *)
(***************************************************************************)

\* C15 as stated: a hot get-detail whose key is absent ends in an outcome
\* that is the miss for its caller: the error is ErrCacheMiss, and the
\* response differs from the one given for a corrupted payload and from the
\* one given for an I/O failure.
C15_MissIsDistinguished ==
    (rq.pc = "done" /\ rq.kind = "hot_detail" /\ rq.cause = "miss")
        => /\ ErrorsIs(rq.err, "ErrCacheMiss")
           /\ \A other \in {CacheGetPostDetail(detail, {rq.id}, rq.id, TRUE),
                            CacheGetPostDetail(Put(detail, rq.id, 0), {rq.id}, rq.id, FALSE)} :
                 /\ ~ErrorsIs(other.err, "ErrCacheMiss")
                 /\ HotDetailResponse(other.err) # [http |-> rq.http, code |-> rq.code]

\* C16 as stated: a read that returns a post returns one whose row has
\* status Approved and no deleted_at: the by-id read at the time it read the
\* Post row, the hot detail read at the time it answers.
C16_OnlyApprovedLivePostsReturned ==
    (rq.pc = "done" /\ rq.http = 200)
        => /\ rq.kind = "by_id" => rq.shown = "Approved"
           /\ rq.kind = "hot_detail"
                 => RowState(dbPost, rq.id) = "live" /\ dbPost[rq.id].status = "Approved"

\* C19: every detached task runs under a deadline of its own (two seconds
\* for a view increment), so none outlives that bound when the store hangs.
C19_DetachedTasksBounded ==
    \A t \in tasks : t.deadline > 0 /\ t.deadline <= 2

(***************************************************************************)
(* Further claims on write-back.                                           *)
(***************************************************************************)

\* The batches of the run whose rows all carry the value the run read.
CommittedBatches ==
    {k \in DOMAIN sy.batches :
        \A p \in sy.batches[k] \cap dbLive : dbView[p] = sy.M[p]}

\* C20 as stated: a run in which a batch failed has let every batch run
\* (each has reported), returns one error that counts every failed batch,
\* and at least the batches reported successful are committed; a row
\* written by the run is never set back.
C20_BatchFailuresAggregated ==
    /\ [](( /\ sy.pc = "done"
            /\ \E i \in DOMAIN sy.results : sy.results[i] # "nil")
          => /\ Len(sy.results) = Len(sy.batches)
             /\ sy.ret = "error"
             /\ Len(sy.agg) = Cardinality({i \in DOMAIN sy.results : sy.results[i] # "nil"})
             /\ Cardinality(CommittedBatches) >= Len(sy.batches) - Len(sy.agg))
    /\ [][\A p \in DOMAIN dbView :
             (sy.pc = "pool" /\ p \in DOMAIN sy.M /\ dbView[p] = sy.M[p])
                 => dbView'[p] = sy.M[p]]_vars

(***************************************************************************)
(* Scheduler: ViewCountSyncTask.startCronJob, HotPostsCacheTask.startCronJob, *)
(* their Stop methods and the shutdown sequence of main                    *)
(***************************************************************************)

Period(j) == IF j = "writeback" THEN WritebackPeriod ELSE HotPeriod

\* Mutant of RunDeadline: the run gets context.Background().
RunWithoutDeadline(j) == MaxTime

\* The deadline of the context each run is given, in minutes after its start.
RunDeadline(j) == IF j = "writeback" THEN WritebackTimeout ELSE HotTimeout

\* A cron entry is due: cron starts the job function in a goroutine of its
\* own, whether or not an earlier run is still executing.
CronTick(j) ==
    /\ sd.pc = "serving"
    /\ cr.now = cr.next[j]
    /\ cr' = [cr EXCEPT !.runs[j] = @ \cup {cr.now}, !.next[j] = @ + Period(j)]
    /\ UNCHANGED <<viewVars, hotVars, pg, syncVars, modVars, readVars, extVars, sd>>

\* The job function of a run returns.
RunReturn(j) ==
    /\ \E r \in cr.runs[j] : cr' = [cr EXCEPT !.runs[j] = @ \ {r}]
    /\ UNCHANGED <<viewVars, hotVars, pg, syncVars, modVars, readVars, extVars, sd>>

\* A minute passes.  Every blocking call of a run is made with the context of
\* the run, so a run has returned ReturnSlack minutes after its deadline at
\* the latest; a due entry is started before the clock goes on.
Advance ==
    /\ cr.now < MaxTime
    /\ sd.pc = "serving" => \A j \in Jobs : cr.next[j] > cr.now
    /\ \A j \in Jobs : \A r \in cr.runs[j] : cr.now + 1 <= r + RunDeadline(j) + ReturnSlack
    /\ cr' = [cr EXCEPT !.now = @ + 1]
    /\ UNCHANGED <<viewVars, hotVars, pg, syncVars, modVars, readVars, extVars, sd>>

\* main received SIGINT/SIGTERM, closed the HTTP server and the consumers,
\* and called syncTask.Stop() and cacheTask.Stop(): no entry fires any more,
\* and each returned context is done once the runs of its job have returned.
ShutdownStop ==
    /\ sd.pc = "serving"
    /\ sd' = [sd EXCEPT !.pc = "join"]
    /\ UNCHANGED <<viewVars, hotVars, pg, syncVars, modVars, readVars, extVars, cr>>

\* shutdownCtx (30 s) expires.
ShutdownTimeout ==
    /\ sd.pc = "join" /\ ~sd.timedOut
    /\ sd' = [sd EXCEPT !.timedOut = TRUE]
    /\ UNCHANGED <<viewVars, hotVars, pg, syncVars, modVars, readVars, extVars, cr>>

\* One iteration of "for tasksStopped < 2 { select ... }".  The select
\* evaluates syncStopCtx.Done() and cacheStopCtx.Done() on entry: a variable
\* set to nil by an earlier iteration is a nil interface, and the call
\* panics.  Otherwise one ready case is taken; after the timeout case the
\* loop ends, after a completion case the loop sleeps and iterates.
JoinSelect ==
    /\ sd.pc = "join"
    /\ IF sd.sync = "nil" \/ sd.cache = "nil"
          THEN sd' = [sd EXCEPT !.pc = "panicked"]
          ELSE \/ /\ cr.runs["writeback"] = {}
                  /\ sd' = [sd EXCEPT !.sync = "nil", !.stopped = @ + 1]
               \/ /\ cr.runs["hot"] = {}
                  /\ sd' = [sd EXCEPT !.cache = "nil", !.stopped = @ + 1]
               \/ /\ sd.timedOut
                  /\ sd' = [sd EXCEPT !.stopped = 2, !.pc = "exited"]
    /\ UNCHANGED <<viewVars, hotVars, pg, syncVars, modVars, readVars, extVars, cr>>

\* The service has just started: the write-back entry is due at the next
\* minute divisible by ten, the hot entry fifteen minutes after the start.
SchedInit ==
    /\ bloom = [x \in {} |-> {}]
    /\ viewCount = EmptyMap
    /\ postRank = EmptyMap
    /\ inc = [c \in Clients |-> IdleClient]
    /\ faults = 0
    /\ fpSeen = FALSE
    /\ counted = [p \in Posts |-> [u \in Users |-> 0]]
    /\ dbLive = {}
    /\ HotQuiet
    /\ RestQuiet
    /\ ModQuiet
    /\ ReadQuiet
    /\ \E first \in 1..WritebackPeriod :
          cr = [IdleCron EXCEPT !.next = [j \in Jobs |-> IF j = "writeback" THEN first
                                                                           ELSE HotPeriod]]
    /\ sd = IdleShutdown
    /\ ExtQuiet

SchedNext ==
    \/ \E j \in Jobs : CronTick(j)
    \/ \E j \in Jobs : RunReturn(j)
    \/ Advance
    \/ ShutdownStop
    \/ ShutdownTimeout
    \/ JoinSelect

\* The two schedulers, their runs, and a shutdown at any moment.
SpecSched == SchedInit /\ [][SchedNext]_vars

(***************************************************************************)
(* Claims on the scheduler.                                                *)
(***************************************************************************)

\* C17: no job has two runs in progress at once, so an entry never starts a
\* run while an earlier run of the same job is still executing.
C17_NoSelfOverlap ==
    \A j \in Jobs : Cardinality(cr.runs[j]) <= 1

\* A second run of the write-back job is in progress, started while a run of
\* the hot-snapshot job was executing.
C17_Witness ==
    /\ \E r \in cr.runs["writeback"] : r > WritebackPeriod
    /\ \E h \in cr.runs["hot"] : \E r \in cr.runs["writeback"] : h < r
    /\ Cardinality(cr.runs["writeback"]) = 1

\* C18 as stated: the join on the two schedulers never faults.
C18_ShutdownNeverFaults ==
    sd.pc # "panicked"

(***************************************************************************)
(* Bulk read: postViewRepository.GetAllViewCounts                          *)
(***************************************************************************)

\* GetAllViewCounts is called.
ScanStart ==
    /\ sc.pc = "idle"
    /\ sc' = [sc EXCEPT !.pc = "scan", !.left = DOMAIN sc.store, !.kept = DOMAIN sc.store]
    /\ UNCHANGED <<baseVars, postVars, fr>>

\* The test of the cursor at the end of an iteration.
CursorTest(s, acc1) ==
    IF s.last THEN [s EXCEPT !.pc = "done", !.acc = acc1, !.keys = {}, !.left = {},
                             !.ret = GetAllReturn(acc1, <<>>)]
              ELSE [s EXCEPT !.pc = "scan", !.acc = acc1, !.keys = {}]

\* One SCAN round trip.  SCAN returns every key that is present during the
\* whole iteration at least once before it returns cursor 0, and may return
\* a key more than once; an empty batch skips the MGET.
ScanCall ==
    /\ sc.pc = "scan"
    /\ \/ sc' = [sc EXCEPT !.pc = "done", !.failed = TRUE,
                           !.ret = GetAllReturn(sc.acc, <<"GetAllViewCounts", "scan_error">>)]
       \/ \E keys \in SUBSET DOMAIN sc.store : \E last \in BOOLEAN :
             /\ Cardinality(keys) <= scanCount(sc.cfg)
             /\ keys \cap sc.left # {} \/ sc.left = {}
             /\ last => sc.left \subseteq keys
             /\ LET s1 == [sc EXCEPT !.keys = keys, !.last = last, !.left = @ \ keys]
                IN  sc' = IF keys = {} THEN CursorTest(s1, sc.acc)
                                      ELSE [s1 EXCEPT !.pc = "mget"]
    /\ UNCHANGED <<baseVars, postVars, fr>>

\* The MGET round trip on the keys of the batch, the merge of its values and
\* the test of the cursor.
ScanMGet ==
    /\ sc.pc = "mget"
    /\ \/ sc' = [sc EXCEPT !.pc = "done", !.failed = TRUE,
                           !.ret = GetAllReturn(sc.acc, <<"GetAllViewCounts", "mget_error">>)]
       \/ sc' = CursorTest(sc, MergeBatch(sc.acc, sc.store, sc.keys))
    /\ UNCHANGED <<baseVars, postVars, fr>>

\* A request served meanwhile runs the count-and-rank script: INCR of the
\* counter of post k, which creates the key when it is absent.
ScanIncr(k) ==
    /\ sc.pc \in {"scan", "mget"}
    /\ sc.wr < MaxScanWrites
    /\ ParseKeyOk(k)
    /\ k \in DOMAIN sc.store => (sc.store[k] >= 0 /\ sc.store[k] < MaxScanCount)
    /\ sc' = [sc EXCEPT !.wr = @ + 1,
                        !.store = Put(@, k, IF k \in DOMAIN @ THEN @[k] + 1 ELSE 1)]
    /\ UNCHANGED <<baseVars, postVars, fr>>

\* A key leaves the keyspace meanwhile (DEL by an operator, eviction).
ScanRemove(k) ==
    /\ sc.pc \in {"scan", "mget"}
    /\ sc.wr < MaxScanWrites
    /\ k \in DOMAIN sc.store
    /\ sc' = [sc EXCEPT !.wr = @ + 1,
                        !.store = [x \in (DOMAIN @) \ {k} |-> @[x]],
                        !.left = @ \ {k}, !.kept = @ \ {k}]
    /\ UNCHANGED <<baseVars, postVars, fr>>

\* Any keyspace, the configured scan batch size valid or not.
ScanInit ==
    /\ bloom = [x \in {} |-> {}]
    /\ viewCount = EmptyMap
    /\ postRank = EmptyMap
    /\ inc = [c \in Clients |-> IdleClient]
    /\ faults = 0
    /\ fpSeen = FALSE
    /\ counted = [p \in Posts |-> [u \in Users |-> 0]]
    /\ dbLive = {}
    /\ HotQuiet
    /\ RestQuiet
    /\ ModQuiet
    /\ ReadQuiet
    /\ SchedQuiet
    /\ \E S \in SUBSET ScanKeys : \E f \in [S -> ScanValues] : \E c \in {0, ScanBatchSize} :
          sc = [IdleScan EXCEPT !.store = f, !.cfg = c]
    /\ PostQuiet
    /\ fr = IdleFormat

ScanNext ==
    \/ ScanStart
    \/ ScanCall
    \/ ScanMGet
    \/ \E k \in ScanKeys : ScanIncr(k)
    \/ \E k \in ScanKeys : ScanRemove(k)

\* One call of GetAllViewCounts while other clients write to the keyspace.
SpecScan == ScanInit /\ [][ScanNext]_vars

\* C21: a call in which a SCAN or an MGET failed returns no map and an
\* error; a call that returns without error returns a counter for every key
\* with a numeric id that was in the keyspace throughout the call.
C21_NoPartialMapping ==
    sc.pc = "done"
        => /\ sc.failed => (sc.ret.nil /\ sc.ret.err # <<>> /\ sc.ret.m = EmptyMap)
           /\ sc.ret.err = <<>> =>
                 /\ ~sc.failed /\ ~sc.ret.nil
                 /\ {k \in sc.kept : ParseKeyOk(k)} \subseteq DOMAIN sc.ret.m

\* The MGET of a later batch failed after counters of an earlier batch had
\* been merged, with keys still to come; nothing of the map is returned.
C21_Witness ==
    /\ sc.pc = "done" /\ sc.failed
    /\ sc.acc # EmptyMap /\ sc.left # {}
    /\ sc.ret.err = <<"GetAllViewCounts", "mget_error">> /\ sc.ret.nil

(***************************************************************************)
(* Posts in the DurableStore: postService.CreatePost,                      *)
(* postService.DeletePost, postAdminService.DeletePostByAdmin and the      *)
(* repository statements they run                                          *)
(***************************************************************************)

RelPosts == 1..NumRelPosts

\* A row is absent, "live" (deleted_at IS NULL) or "deleted".  The detail of
\* a post is kept under the post's id, the images of a detail under the id
\* of the detail, which the model takes equal to the id of its post.
Live(t, k) == k \in DOMAIN t /\ t[k] = "live"

\* postRepository.CreatePost, postDetailRepository.CreatePostDetail,
\* postDetailImageRepository.BatchCreatePostDetailImages.
CreatePostRow(r, p) == [r EXCEPT !.post = Put(@, p, "live")]

CreatePostDetail(r, p) == [r EXCEPT !.detail = Put(@, p, "live")]

BatchCreatePostDetailImages(r, d, n) ==
    [r EXCEPT !.image = Put(@, d, [i \in 1..n |-> "live"])]

\* DELETE on a model with gorm.DeletedAt: UPDATE ... SET deleted_at = now
\* WHERE <condition> AND deleted_at IS NULL; no row met is not an error.
DeleteImagesByPostDetailID(r, d) ==
    [r EXCEPT !.image = [x \in DOMAIN @ |->
                            IF x = d THEN [i \in DOMAIN @[x] |-> "deleted"] ELSE @[x]]]

DeletePostDetailByPostID(r, p) ==
    [r EXCEPT !.detail = [x \in DOMAIN @ |-> IF x = p THEN "deleted" ELSE @[x]]]

DeletePostRow(r, p) ==
    [r EXCEPT !.post = [x \in DOMAIN @ |-> IF x = p THEN "deleted" ELSE @[x]]]

\* postDetailRepository.GetPostDetailByPostID: First on the live rows; no
\* row is commonerrors.ErrRepoNotFound.
GetPostDetailByPostID(r, p) ==
    IF Live(r.detail, p) THEN <<>> ELSE <<"ErrRepoNotFound">>

\* One statement of a handler, by name.
Apply(stmt, r, p, n) ==
    CASE stmt = "CreatePost" -> CreatePostRow(r, p)
      [] stmt = "CreatePostDetail" -> CreatePostDetail(r, p)
      [] stmt = "BatchCreatePostDetailImages" -> BatchCreatePostDetailImages(r, p, n)
      [] stmt = "DeleteImagesByPostDetailID" -> DeleteImagesByPostDetailID(r, p)
      [] stmt = "DeletePostDetailByPostID" -> DeletePostDetailByPostID(r, p)
      [] stmt = "DeletePost" -> DeletePostRow(r, p)

RECURSIVE ApplyAll(_, _, _, _)
ApplyAll(stmts, r, p, n) ==
    IF stmts = <<>> THEN r
    ELSE ApplyAll(Tail(stmts), Apply(Head(stmts), r, p, n), p, n)

\* Mutant of StmtHandle: the repository runs the statement on its own r.db.
StmtHandleOwn(db) == "db"

\* The handle a repository method runs its statement on: the one passed in.
StmtHandle(db) == db

\* The statements of the transaction closure of DeletePost.
DeletePostClosure(found) ==
    IF found THEN <<"DeleteImagesByPostDetailID", "DeletePostDetailByPostID", "DeletePost">>
             ELSE <<"DeletePost">>

\* The statements of the transaction closure of DeletePostByAdmin.
DeletePostByAdminClosure == <<"DeletePost", "DeletePostDetailByPostID">>

\* The statements of the transaction closure of CreatePost.
CreatePostClosure(uploaded) ==
    <<"CreatePost", "CreatePostDetail">>
        \o (IF uploaded # {} THEN <<"BatchCreatePostDetailImages">> ELSE <<>>)

\* A call begins; the history of the calls before it is kept.
BeginOp(kind, p, pc) ==
    [IdleOp EXCEPT !.pc = pc, !.kind = kind, !.n = op.n + 1, !.post = p,
                   !.faults = op.faults, !.emitted = op.emitted, !.before = rel]

\* Mutant of CleanupTargets: nothing is cleaned up.
CleanupTargetsNone(uploaded) == {}

\* The objects CreatePost calls DeleteObject for after a failed transaction.
CleanupTargets(uploaded) == uploaded

\* CreatePost is called with n image files.
CreatePostStart(n) ==
    /\ op.pc \in {"idle", "done"} /\ op.n < MaxOps
    /\ Cardinality(DOMAIN rel.post) < NumRelPosts
    /\ op' = [BeginOp("create", Cardinality(DOMAIN rel.post) + 1, "upload")
                  EXCEPT !.images = n]
    /\ UNCHANGED <<baseVars, sc, fr, rel, blob>>

\* One iteration of the upload loop, or its end: the transaction begins.
\* A failed upload returns the error at once.
CreatePostUpload ==
    /\ op.pc = "upload"
    /\ IF Cardinality(op.uploaded) = op.images
          THEN /\ op' = [op EXCEPT !.pc = "tx", !.todo = CreatePostClosure(op.uploaded)]
               /\ UNCHANGED blob
          ELSE LET key == <<op.n, Cardinality(op.uploaded) + 1>>
               IN  \/ /\ blob' = blob \cup {key}
                      /\ op' = [op EXCEPT !.uploaded = @ \cup {key}]
                   \/ /\ op.faults < MaxFaults
                      /\ op' = [op EXCEPT !.pc = "done", !.faults = @ + 1, !.ret = "error",
                                          !.err = <<"CreatePost", "cos_error">>]
                      /\ UNCHANGED blob
    /\ UNCHANGED <<baseVars, sc, fr, rel>>

\* DeletePost is called.
DeletePostStart(p) ==
    /\ op.pc \in {"idle", "done"} /\ op.n < MaxOps
    /\ op' = BeginOp("delete", p, "read")
    /\ UNCHANGED <<baseVars, sc, fr, rel, blob>>

\* DeletePost reads the detail: an error other than gorm.ErrRecordNotFound
\* is returned; otherwise the transaction begins.
DeletePostRead ==
    /\ op.pc = "read"
    /\ \E e \in {GetPostDetailByPostID(rel, op.post)}
                   \cup (IF op.faults < MaxFaults THEN {<<"db_error">>} ELSE {}) :
          IF e # <<>> /\ ~ErrorsIs(e, "gorm.ErrRecordNotFound")
             THEN op' = [op EXCEPT !.pc = "done", !.ret = "error",
                                   !.found = IF e = <<"db_error">> THEN "error" ELSE "notfound",
                                   !.faults = IF e = <<"db_error">> THEN @ + 1 ELSE @,
                                   !.err = <<"DeletePost">> \o e]
             ELSE op' = [op EXCEPT !.pc = "tx", !.found = IF e = <<>> THEN "found" ELSE "notfound",
                                   !.todo = DeletePostClosure(e = <<>>)]
    /\ UNCHANGED <<baseVars, sc, fr, rel, blob>>

\* DeletePostByAdmin is called: the transaction begins at once.
DeletePostByAdminStart(p) ==
    /\ op.pc \in {"idle", "done"} /\ op.n < MaxOps
    /\ op' = [BeginOp("admin_delete", p, "tx") EXCEPT !.todo = DeletePostByAdminClosure]
    /\ UNCHANGED <<baseVars, sc, fr, rel, blob>>

\* After the transaction failed: delete and admin delete return the error,
\* create goes on to clean the blob store up.
TxFailed(e) ==
    [op EXCEPT !.pc = IF op.kind = "create" THEN "cleanup" ELSE "done",
               !.todo = <<>>, !.work = <<>>, !.faults = @ + 1,
               !.err = e, !.ret = "error"]

\* The next statement of the closure.  Run on the transaction it takes
\* effect at commit; run on another handle it takes effect at once.  A
\* statement that fails makes the closure return the error: rollback.
TxStep ==
    /\ op.pc = "tx" /\ op.todo # <<>>
    /\ LET stmt == Head(op.todo)
       IN  \/ IF StmtHandle("tx") = "tx"
                 THEN /\ op' = [op EXCEPT !.todo = Tail(@), !.work = Append(@, stmt)]
                      /\ UNCHANGED rel
                 ELSE /\ op' = [op EXCEPT !.todo = Tail(@)]
                      /\ rel' = Apply(stmt, rel, op.post, op.images)
           \/ /\ op.faults < MaxFaults
              /\ op' = TxFailed(<<stmt, "db_error">>)
              /\ UNCHANGED rel
    /\ UNCHANGED <<baseVars, sc, fr, blob>>

\* The closure returned nil: commit.  After the commit the handler detaches
\* the emission of its event and returns nil.
TxCommit ==
    /\ op.pc = "tx" /\ op.todo = <<>>
    /\ \/ /\ rel' = ApplyAll(op.work, rel, op.post, op.images)
          /\ op' = [op EXCEPT !.pc = "done", !.work = <<>>, !.ret = "ok",
                              !.emitted = Append(@, <<IF op.kind = "create"
                                                         THEN "pending_audit" ELSE "deleted",
                                                      op.post>>)]
       \/ /\ op.faults < MaxFaults
          /\ op' = TxFailed(<<"commit", "db_error">>)
          /\ UNCHANGED rel
    /\ UNCHANGED <<baseVars, sc, fr, blob>>

\* CreatePost after a failed transaction: DeleteObject for the uploaded
\* objects, each failure logged, and the error of the transaction returned.
CreatePostCleanup ==
    /\ op.pc = "cleanup"
    /\ \E gone \in SUBSET CleanupTargets(op.uploaded) :
          /\ blob' = blob \ gone
          /\ op' = [op EXCEPT !.pc = "done", !.attempted = CleanupTargets(op.uploaded)]
    /\ UNCHANGED <<baseVars, sc, fr, rel>>

\* An empty DurableStore and blob store.
PostInit ==
    /\ bloom = [x \in {} |-> {}]
    /\ viewCount = EmptyMap
    /\ postRank = EmptyMap
    /\ inc = [c \in Clients |-> IdleClient]
    /\ faults = 0
    /\ fpSeen = FALSE
    /\ counted = [p \in Posts |-> [u \in Users |-> 0]]
    /\ dbLive = {}
    /\ HotQuiet
    /\ RestQuiet
    /\ ModQuiet
    /\ ReadQuiet
    /\ SchedQuiet
    /\ ExtQuiet

PostNext ==
    \/ \E n \in 0..MaxImages : CreatePostStart(n)
    \/ CreatePostUpload
    \/ \E p \in RelPosts : DeletePostStart(p)
    \/ DeletePostRead
    \/ \E p \in RelPosts : DeletePostByAdminStart(p)
    \/ TxStep
    \/ TxCommit
    \/ CreatePostCleanup

\* Create and delete calls, one at a time.
SpecPost == PostInit /\ [][PostNext]_vars


(***************************************************************************)
(* Claims on create and delete.                                            *)
(***************************************************************************)

\* The post, its detail and every image of the detail are not live.
AllSoftDeleted(r, p) ==
    /\ ~Live(r.post, p)
    /\ ~Live(r.detail, p)
    /\ p \in DOMAIN r.image => \A i \in DOMAIN r.image[p] : r.image[p][i] # "live"

\* C22: when DeletePost has returned nil, the post, its detail and the
\* images of the detail are soft-deleted; when it has returned an error,
\* no row was changed.
C22_OwnerDeleteAllOrNothing ==
    (op.pc = "done" /\ op.kind = "delete")
        => /\ op.ret = "ok" => AllSoftDeleted(rel, op.post)
           /\ op.ret = "error" => rel = op.before

\* A post with two images was deleted by its owner: the three statements
\* ran and the rows are soft-deleted.
C22_Witness ==
    /\ op.pc = "done" /\ op.kind = "delete" /\ op.ret = "ok"
    /\ Live(op.before.post, op.post) /\ Live(op.before.detail, op.post)
    /\ op.post \in DOMAIN op.before.image /\ Len(op.before.image[op.post]) = 2
    /\ AllSoftDeleted(rel, op.post)

\* C23 as stated: after a successful admin delete no image of a deleted
\* detail is left undeleted.
C23_AdminDeleteCoversImages ==
    (op.pc = "done" /\ op.kind = "admin_delete" /\ op.ret = "ok")
        => AllSoftDeleted(rel, op.post)

\* C24 as stated: DeletePost on a post whose detail row is absent
\* soft-deletes the post and returns nil.
C24_DeleteWithoutDetailSucceeds ==
    (op.pc = "done" /\ op.kind = "delete" /\ op.found = "notfound")
        => op.ret = "ok" /\ ~Live(rel.post, op.post)

\* C25: when the transaction of CreatePost has failed, no row of the post
\* persists, the error is returned, and DeleteObject was called for every
\* object the request had uploaded.
C25_FailedCreateLeavesNothing ==
    (op.pc = "done" /\ op.kind = "create" /\ op.err # <<>> /\ op.err[2] = "db_error")
        => /\ rel = op.before
           /\ op.ret = "error"
           /\ op.attempted = op.uploaded

\* The insert of the images failed after the post and the detail had been
\* inserted in the transaction, with two objects uploaded.
C25_Witness ==
    /\ op.pc = "done" /\ op.kind = "create"
    /\ op.err = <<"BatchCreatePostDetailImages", "db_error">>
    /\ Cardinality(op.uploaded) = 2 /\ op.attempted = op.uploaded
    /\ rel = op.before /\ op.post \notin DOMAIN rel.post


(***************************************************************************)
(* RejectedAuditHandler.formatRejectionReason                              *)
(***************************************************************************)

\* A string is the sequence of its bytes.
RECURSIVE Join(_, _)
Join(strs, sep) ==
    IF strs = <<>> THEN <<>>
    ELSE IF Len(strs) = 1 THEN strs[1]
    ELSE strs[1] \o sep \o Join(Tail(strs), sep)

Digit(d) == <<<<"0", "1", "2", "3", "4", "5", "6", "7", "8", "9">>[d + 1]>>

\* "%.2f" of a score given in hundredths, 0.00 .. 9.99.
FormatScore(h) ==
    Digit(h \div 100) \o <<".">> \o Digit((h \div 10) % 10) \o Digit(h % 10)

\* ", Matched: '%s'" of strings.Join(MatchedContent, "','"), or nothing.
FormatMatched(m) ==
    IF m = <<>> THEN <<>>
    ELSE <<",", " ", "M", "a", "t", "c", "h", "e", "d", ":", " ", "'">>
            \o Join(m, <<"'", ",", "'">>) \o <<"'">>

\* "{Label: %s, Suggestion: %s, Score: %.2f%s}".
FormatDetail(d) ==
    <<"{", "L", "a", "b", "e", "l", ":", " ">> \o d.label
        \o <<",", " ", "S", "u", "g", "g", "e", "s", "t", "i", "o", "n", ":", " ">> \o d.suggestion
        \o <<",", " ", "S", "c", "o", "r", "e", ":", " ">> \o FormatScore(d.score)
        \o FormatMatched(d.matched) \o <<"}">>

\* The reason before it is cut.
BuildReason(suggestion, details) ==
    <<"S", "u", "g", "g", "e", "s", "t", "i", "o", "n", ":", " ">> \o suggestion \o <<".">>
        \o (IF details # <<>>
               THEN <<" ", "D", "e", "t", "a", "i", "l", "s", ":", " ", "[">>
                       \o Join([i \in DOMAIN details |-> FormatDetail(details[i])], <<";", " ">>)
                       \o <<"]">>
               ELSE <<>>)

\* reasonStr[:maxReasonLength] + "..." when the reason is longer.
Truncate(str) ==
    IF Len(str) > maxReasonLength
       THEN SubSeq(str, 1, maxReasonLength) \o <<".", ".", ".">>
       ELSE str

formatRejectionReason(suggestion, details) == Truncate(BuildReason(suggestion, details))

\* The details an event may carry.
SomeDetails ==
    { [label |-> <<"s", "p", "a", "m">>, suggestion |-> <<"b", "l", "o", "c", "k">>,
       score |-> 95, matched |-> <<>>],
      [label |-> <<"a", "d">>, suggestion |-> <<"r", "e", "v", "i", "e", "w">>,
       score |-> 100, matched |-> << <<"b", "u", "y">>, <<"n", "o", "w">> >>] }

\* The handler composes the reason of the event it was given.
FormatCall ==
    /\ fr.pc = "idle"
    /\ fr' = [fr EXCEPT !.pc = "done",
                        !.out = formatRejectionReason(fr.suggestion, fr.details)]
    /\ UNCHANGED <<baseVars, sc, postVars>>

\* Any suggestion up to MaxSuggLen bytes and up to MaxDetails details.
FormatInit ==
    /\ bloom = [x \in {} |-> {}]
    /\ viewCount = EmptyMap
    /\ postRank = EmptyMap
    /\ inc = [c \in Clients |-> IdleClient]
    /\ faults = 0
    /\ fpSeen = FALSE
    /\ counted = [p \in Posts |-> [u \in Users |-> 0]]
    /\ dbLive = {}
    /\ HotQuiet
    /\ RestQuiet
    /\ ModQuiet
    /\ ReadQuiet
    /\ SchedQuiet
    /\ sc = IdleScan
    /\ PostQuiet
    /\ \E n \in 0..MaxSuggLen : \E k \in 0..MaxDetails : \E ds \in [1..k -> SomeDetails] :
          fr = [IdleFormat EXCEPT !.suggestion = [i \in 1..n |-> "a"], !.details = ds]

FormatNext == FormatCall

\* One call of formatRejectionReason.
SpecFormat == FormatInit /\ [][FormatNext]_vars

\* C27 as stated: the composed reason is never longer than 250 bytes.
C27_ReasonAtMost250 ==
    fr.pc = "done" => Len(fr.out) <= maxReasonLength


(***************************************************************************)
(* Claims on the global ranking.                                           *)
(***************************************************************************)

\* C28: no step lowers the score of a post in post_rank or removes the post
\* from it.
C28_ScoreNeverDecreases ==
    [][\A p \in DOMAIN postRank :
           p \in DOMAIN postRank' /\ postRank'[p] >= postRank[p]]_vars

\* A snapshot cycle has completed and a post was counted after step 1 had
\* copied its score: its score in post_rank is above the one in the hot
\* ranking.
C28_Witness ==
    /\ views >= 1 /\ cycles >= 1
    /\ \E p \in (DOMAIN postRank) \cap (DOMAIN hotRank) : postRank[p] > hotRank[p]

\* C29 as stated: in a cycle whose step 1 failed, neither step 2 nor step 3
\* is executed.
C29_Step1FailureAbortsCycle ==
    cyc.r1 = "error" => (cyc.r2 = "none" /\ cyc.r3 = "none")

(***************************************************************************)
(* Further claims on view accounting.                                      *)
(***************************************************************************)

\* C30 as stated: whatever the outcome of BFAdd and of Expire, the call goes
\* on towards the count-and-rank script.
C30_DedupWriteFailureNonFatal ==
    [][\A c \in Clients :
           (inc[c].pc \in {"add", "expire"} /\ inc'[c] # inc[c])
               => inc'[c].pc \in {"expire", "lua"}]_vars

(***************************************************************************)
(* Claims on the failure paths of the snapshot job.                        *)
(***************************************************************************)

\* C31: when GetPostsByIDs of step 2 returned an error, the summary hash is,
\* until the run ends, the map it was when the run started: no field added,
\* removed or changed.
C31_FetchFailureKeepsLiveHash ==
    cyc.dbErr2 => (cyc.r2 = "error" /\ postsHash = cyc.pre)

\* A run whose fetch failed has ended; the hash it kept is not what the hot
\* ranking of this run would have published.
C31_Witness ==
    /\ cyc.pc = "end"
    /\ cyc.dbErr2
    /\ postsHash # EmptyMap
    /\ DOMAIN postsHash # DOMAIN hotRank

\* C32 as stated: when the RENAME pipeline of step 3 failed, the run reports
\* an error and has issued a DEL for every temp key it did not rename.
C32_RenameFailureCleansTempKeys ==
    cyc.unren # {} => (cyc.r3 = "error" /\ cyc.unren \subseteq cyc.cleaned)

(***************************************************************************)
(* Claims on the worker pool of BatchUpdatePostViewCounts.                 *)
(***************************************************************************)

\* C33: in every state of a run, the batches being processed are at most C,
\* the configured concurrency, or one when that value is not positive.
C33_AtMostCBatchesInParallel ==
    Cardinality({x \in Workers : sy.w[x].pc = "work"})
        <= (IF sy.cfg > 0 THEN sy.cfg ELSE 1)

\* Two batches are being processed at once under a concurrency of two; a run
\* configured with zero has a batch in progress.
C33_Witness ==
    \/ /\ sy.cfg = 2
       /\ Cardinality({x \in Workers : sy.w[x].pc = "work"}) = 2
    \/ /\ sy.cfg = 0
       /\ Cardinality({x \in Workers : sy.w[x].pc = "work"}) = 1
       /\ Len(sy.batches) = 2

\* C34 as stated: BatchUpdatePostViewCounts returns nil only when every batch
\* was handed to a worker and is committed.
C34_NilOnlyWhenEveryBatchRan ==
    (sy.pc = "done" /\ sy.ret = "nil")
        => /\ sy.next > Len(sy.batches)
           /\ Len(sy.results) = Len(sy.batches)
           /\ CommittedBatches = DOMAIN sy.batches

\* The dispatcher, the closer and every worker of the pool have finished.
PoolFinished ==
    /\ sy.disp = "exit" /\ sy.jobsClosed /\ sy.jobs = <<>>
    /\ \A x \in Workers : sy.w[x].pc \in {"exit", "none"}
    /\ sy.resultsClosed

\* C35: a call of BatchUpdatePostViewCounts with at least one entry returns,
\* and when it has returned its dispatcher, its closer and all its workers
\* have finished, whatever the number of batches, the concurrency, the
\* batches that fail and the moment the deadline passes.
C35_PoolAlwaysTerminates ==
    /\ [](sy.pc = "done" /\ sy.ret \in {"nil", "error"} => PoolFinished)
    /\ (sy.pc = "pool") ~> (sy.pc = "done" /\ PoolFinished)

\* A run of two batches returned after its deadline passed with a batch
\* refused by a worker; another returned with a failed batch under a
\* concurrency of one.
C35_Witness ==
    /\ sy.pc = "done" /\ PoolFinished
    /\ Len(sy.batches) = 2
    /\ \/ sy.ctxDone /\ "cancelled" \in Range(sy.results) /\ sy.next <= Len(sy.batches)
       \/ sy.cfg <= 0 /\ "failed" \in Range(sy.results) /\ Len(sy.results) = 2

\* C39 as stated: no step replaces the view_count of a row with a smaller
\* value, over runs of the write-back job with views counted in between.
C39_WritebackNeverDecreases ==
    [][\A p \in DOMAIN dbView : dbView'[p] >= dbView[p]]_vars

(***************************************************************************)
(* Claims on the views a failed call or a failed read leaves behind.       *)
(***************************************************************************)

\* C36 as stated: when the only call made for (post, user) has returned an
\* error and no script was executed for the pair, the filter of the post
\* does not hold the user, so that a retry is counted.
C36_FailedCallLeavesFilterClean ==
    \A c \in Clients :
        (/\ inc[c].pc = "done" /\ inc[c].res = "error"
         /\ Callers(inc[c].post, inc[c].user) = {c}
         /\ counted[inc[c].post][inc[c].user] = 0)
            => ~BFExistsReply(bloom, inc[c].post, inc[c].user)

\* C38 as stated: when a hot get-detail has ended in a miss, a corrupted
\* payload or an I/O failure, the requested post has no counter and no entry
\* in the global ranking on account of the request.
C38_NoViewWithoutDetail ==
    (rq.pc = "done" /\ rq.kind = "hot_detail" /\ rq.cause \in {"miss", "corrupt", "io"})
        => (rq.id \notin DOMAIN viewCount /\ rq.id \notin DOMAIN postRank)

\* C37 as stated: when a run that started after a post was soft-deleted ends
\* with its three steps successful, neither the summary hash nor the detail
\* cache returns that post.
C37_DeletedPostLeavesHotReads ==
    CycleReportsSuccess
        => \A p \in cyc.gone :
              /\ p \notin DOMAIN HMGet(postsHash, HotPosts)
              /\ GetDetail(detail, p) = EmptyMap

(***************************************************************************)
(* Further claims on create.                                               *)
(***************************************************************************)

\* C40 as stated: when an upload of CreatePost has failed, DeleteObject was
\* called for every object the request had uploaded before, and no row was
\* written.
C40_FailedUploadLeavesNoBlobs ==
    (op.pc = "done" /\ op.kind = "create" /\ op.err = <<"CreatePost", "cos_error">>)
        => /\ op.attempted = op.uploaded
           /\ rel = op.before

=============================================================================
